---- MODULE Spec2Model ----
(***************************************************************************)
(* A model of the Algolab bridge server's authenticated-request pipeline:  *)
(* the rate limiter and client of app/algolab_client.py, the session       *)
(* manager of app/session_manager.py and the request handlers of           *)
(* app/routes.py.                                                          *)
(*                                                                         *)
(* Six specifications share the module.  SpecRL runs the tasks that       *)
(* call one client's operations through its rate limiter, and SpecHandlers *)
(* the tasks of handlers with a client each (time unit: 0.1 s).  SpecSess  *)
(* runs the request handlers against the session store (time unit: 1 s).   *)
(* SpecCrypto builds AlgolabCrypto objects of app/crypto_utils.py and      *)
(* encrypts, decrypts and signs with them; SpecHttp passes requests        *)
(* through the application's routes and middleware (app/main.py);          *)
(* SpecBridge runs the retry loop of railway_bridge_client_example.py.     *)
(* Each leaves the others' variables alone.                                *)
(***************************************************************************)
EXTENDS Integers, Sequences, FiniteSets, TLC

VARIABLES
    now,                \* time.time(), in ticks of 0.1 s
    use_mock,           \* settings.algolab_use_mock
    last_request_time,  \* RateLimiter.last_request_time, per client
    lockHolder,         \* RateLimiter._lock: the task that holds it, per client
    lockWaiters,        \* RateLimiter._lock: the FIFO queue of waiting tasks
    hash,               \* AlgolabClient.hash, per client
    token,              \* AlgolabClient.token, per client
    pc,                 \* where each task is in its current call
    tclient,            \* the client each task calls
    top,                \* the kind of operation each task calls
    targ,               \* the arguments of a simulated login_user_control
    wakeAt,             \* the time a sleeping task's asyncio.sleep ends
    gated,              \* the task's current call came through wait_if_needed
    nohash,             \* the client's hash was unset when the call's request was built
    done,               \* the call that finished last, and how
    ncalls,             \* the calls made so far
    prevRelease,        \* history: the value last_request_time had before
    lastSendAt,         \* history: when the client's latest request was sent
    calledAt            \* history: when the task called wait_if_needed, while
                        \* it is suspended in it

rlvars == <<now, use_mock, last_request_time, lockHolder, lockWaiters, hash,
            token, pc, tclient, top, targ, wakeAt, gated, nohash, done,
            ncalls, prevRelease, lastSendAt, calledAt>>

VARIABLES
    utcnow,             \* datetime.utcnow() and the store's clock, in seconds
    ttl_seconds,        \* SessionManager.ttl_seconds
    store,              \* the store's record under each session's key
    storeExp,           \* the time at which the store drops the key
    nextSid,            \* the next fresh session id (uuid4)
    hnd,                \* each request handler: where it is and what it holds
    nreq,               \* the requests handled so far
    answer,             \* history: the latest request answered
    gone                \* history: the id's record was deleted or has expired

ssvars == <<utcnow, ttl_seconds, store, storeExp, nextSid, hnd, nreq, answer,
            gone>>

VARIABLES
    api_key,            \* the api_key an AlgolabCrypto is constructed with
    crypto,             \* the AlgolabCrypto object: api_code, aes_key
    cop                 \* its latest method call: arguments and result

cryvars == <<api_key, crypto, cop>>

VARIABLES
    hreq,               \* the HTTP request the server is handling
    hresp               \* the HTTP response it sent last

webvars == <<hreq, hresp>>

VARIABLES
    raises_on_redirect, \* httpx: raise_for_status raises for a 3xx status
    bcall,              \* the bridge client's _make_request call in progress
    bdone               \* history: how its last call ended

brvars == <<raises_on_redirect, bcall, bdone>>

\* the variables outside the client's, and outside the session store's
pfvars == <<cryvars, webvars, brvars>>

\* all variables but those of AlgolabCrypto, of the server's responses, of
\* the bridge client
notcry == <<rlvars, ssvars, webvars, brvars>>
notweb == <<rlvars, ssvars, cryvars, brvars>>
notbr == <<rlvars, ssvars, cryvars, webvars>>

vars == <<rlvars, ssvars, pfvars>>

-----------------------------------------------------------------------------
(* Bounds of the model *)

MaxTime == 7
MaxCalls == 3
\* min_interval in ticks of 0.1 s: the constructor's min_request_interval
MinInterval == 2

(* Program constants, in ticks of 0.1 s *)
Margin == 1
MockDelayMin == 1
MockDelayMax == 5

Tasks == {1, 2}
Clients == {1, 2}
NoTask == 0
None == "None"

AuthOps == {"session_refresh", "send_order", "delete_order", "modify_order",
            "instant_position", "cash_flow", "get_equity_info",
            "get_subaccounts"}
LoginOps == {"login_user", "login_user_control"}
Ops == LoginOps \cup AuthOps

\* The eight authenticated operations are one code shape: the mock's canned
\* success when use_mock, else _make_request(..., authenticated=True) and
\* _check_response.  A task's state keeps which of the three shapes it runs.
OpKind(op) == IF op \in AuthOps THEN "authenticated" ELSE op

\* the authenticated= argument each operation hands to _make_request
Authenticated(kind) == kind = "authenticated"

SmsCodes == {"000000", "123456"}

\* the temp_token arguments of login_user_control: the one login_user gave
\* out in simulated mode, and another
TempTokens == {"mock-temp-token", "stale-token"}

\* the arguments of a call that is not a simulated login_user_control
NoArgs == [temp_token |-> None, sms_code |-> None]

\* what the broker may answer to a request that was sent; status 0 stands for
\* a transport error or a timeout
BrokerReplies ==
    [status : {200}, success : {TRUE}, hash : {None, "h1"}, token : {"t1"}]
    \cup [status : {200, 429, 500, 0}, success : {FALSE}, hash : {None}, token : {None}]

\* status is the HTTP status of the reply, rhash and rtoken the hash and
\* token in the result of a login operation, temp and code the temp_token
\* and the sms_code of a simulated login_user_control
NoCall == [op |-> None, result |-> None, gated |-> FALSE, sent |-> FALSE,
           nohash |-> FALSE, status |-> 0, rhash |-> None, rtoken |-> None,
           temp |-> None, code |-> None]

-----------------------------------------------------------------------------
(* RateLimiter *)

\* a faulty variant: the time that has passed is added, not taken off
WaitTimePlusElapsed(elapsed) == MinInterval + elapsed + Margin

\* a faulty variant: the sleep forgets what remains of the interval
WaitTimeNoRemainder(elapsed) == Margin

\* wait_time = self.min_interval - elapsed + 0.1
WaitTime(elapsed) == MinInterval - elapsed + Margin

\* a faulty variant: the first caller is made to wait as well
NeedsWaitFirstToo(c, current_time) ==
    current_time - last_request_time[c] < MinInterval

\* a faulty variant: no caller ever waits
NeedsWaitNever(c, current_time) == FALSE

\* if self.last_request_time > 0.0 and elapsed < self.min_interval
NeedsWait(c, current_time) ==
    /\ last_request_time[c] > 0
    /\ current_time - last_request_time[c] < MinInterval

\* a faulty variant: the lock is kept while the request is under way
LockAfterGateKept(t, next) == t

\* leaving "async with self._lock": the lock goes to the first waiter, or is
\* free; _make_request sends its request after that
LockAfterGate(t, next) == next

\* a faulty variant: the lock is taken although another task holds it
LockFreeAlways(c) == TRUE

\* asyncio.Lock.acquire proceeds at once only when the lock is not held and
\* nobody waits for it
LockFree(c) == lockHolder[c] = NoTask /\ lockWaiters[c] = <<>>

-----------------------------------------------------------------------------
(* AlgolabClient._check_response and the operations' use of the reply *)

\* a faulty variant: 429 is taken for any other status that is not 200
CheckResponseNo429(reply) ==
    IF reply.status = 0 THEN "TransportError"
    ELSE IF reply.status # 200 THEN "AlgolabApiError"
    ELSE IF reply.success THEN "success" ELSE "failure"

\* the outcome of _check_response: the parsed body, or the error raised
CheckResponse(reply) ==
    IF reply.status = 0 THEN "TransportError"
    ELSE IF reply.status = 429 THEN "RateLimitExceeded"
    ELSE IF reply.status # 200 THEN "AlgolabApiError"
    ELSE IF reply.success THEN "success" ELSE "failure"

\* a faulty variant: an authenticated call goes out without a hash
MissingHashNever(c, kind) == FALSE

\* if authenticated: if not self.hash: raise ValueError
MissingHash(c, kind) == Authenticated(kind) /\ hash[c] = None

\* MockAlgolabClient.hash and MockAlgolabClient.token
MockHash == "mock-hash"
MockToken == "mock-temp-token"

\* a faulty variant: the all-zero code is verified like any other
MockResultNoSentinel(kind, temp_token, sms_code, should_fail) ==
    IF kind \in LoginOps /\ should_fail THEN "failure" ELSE "success"

\* MockAlgolabClient: the canned result of each operation; should_fail is
\* the random failure draw.  login_user_control does not look at temp_token.
MockResult(kind, temp_token, sms_code, should_fail) ==
    IF kind = "login_user" /\ should_fail THEN "failure"
    ELSE IF kind = "login_user_control" /\ (should_fail \/ sms_code = "000000")
    THEN "failure"
    ELSE "success"

-----------------------------------------------------------------------------
(* The session store: SessionManager over a key-value store with expiry.     *)
(* Time is in seconds.                                                       *)

MaxClock == 60
TickStep == 20
MaxRequests == 3

\* max(ttl, 60) in update_session
MinStoreTtl == 60

\* settings.session_ttl_seconds as it is by default
DefaultTtl == 3600

\* the values of ttl_seconds the manager is built with
TtlChoices == {30, 90}

Handlers == {1, 2}

\* the api_key of the requests
ApiKey == "key1"
\* the session ids uuid4 hands out, in the order it does
Sids == {1, 2}

\* redis TTL of a key that does not exist
KeyMissing == 0 - 2

\* the time of something that has not happened
Never == 0 - 1

\* no AlgolabSession: the key is absent, or the handler holds no session
NoSession == [api_key |-> None, hash |-> None, token |-> None,
              created_at |-> Never, expires_at |-> Never,
              last_refreshed_at |-> Never]

\* what the store holds under a key: nothing, the JSON of a session, or
\* data that is not the JSON of a session
NoData == <<>>

Undecodable == <<"not a session">>

\* session.model_dump_json()
Dump(session) ==
    <<session.api_key, session.hash, session.token, session.created_at,
      session.expires_at, session.last_refreshed_at>>

\* AlgolabSession.model_validate_json(data) does not raise
Decodes(data) == Len(data) = 6

\* AlgolabSession.model_validate_json(data)
Validate(data) ==
    [api_key |-> data[1], hash |-> data[2], token |-> data[3],
     created_at |-> data[4], expires_at |-> data[5],
     last_refreshed_at |-> data[6]]

\* raced: since this update_session read the record, another
\* update_session(extend_ttl=True) has written it.  called: the handler has
\* built its AlgolabClient and called the broker; closed: its client.close()
\* has run; acked: the broker's result was a success
IdleHandler == [pc |-> "idle", kind |-> None, sid |-> 0, sess |-> NoSession,
                extend_ttl |-> FALSE, hash |-> None, called |-> FALSE,
                look |-> None, ttl |-> 0, raced |-> FALSE, closed |-> FALSE,
                acked |-> FALSE]

\* setex is update_session's setex, if the request came to it: the ttl it
\* had and the expiry it passed
NoSetex == [issued |-> FALSE, extend_ttl |-> FALSE, ttl |-> 0, seconds |-> 0,
            raced |-> FALSE]

\* ret is what a call of the manager returned or the broker's result was
NoAnswer == [kind |-> None, status |-> 0, called |-> FALSE, look |-> None,
             storefail |-> FALSE, setex |-> NoSetex, ret |-> None,
             closed |-> FALSE]

\* no request is being handled and the store is empty
InitStore(ttls) ==
    /\ utcnow = 0
    /\ ttl_seconds \in ttls
    /\ store = [sid \in Sids |-> NoData]
    /\ storeExp = [sid \in Sids |-> 0]
    /\ nextSid = 1
    /\ hnd = [h \in Handlers |-> IdleHandler]
    /\ nreq = 0
    /\ answer = NoAnswer
    /\ gone = [sid \in Sids |-> FALSE]

-----------------------------------------------------------------------------
(* AlgolabCrypto: strings are sequences of characters, bytes are 0..255 *)

\* no AlgolabCrypto has been constructed
NotBuilt == [state |-> "none", api_key_full |-> <<>>, api_code |-> <<>>,
             aes_key |-> <<>>]

\* no method of the AlgolabCrypto has been called.  text and decrypted are
\* sequences of code points, encrypted is base64 text, signature_string is
\* what make_checker hashes and checker its digest; the prev_ fields are
\* those of the make_checker call before, of which this one changed one
\* field (changed is its index)
NoOp == [op |-> None, err |-> None, text |-> <<>>, encrypted |-> <<>>,
         decrypted |-> <<>>, endpoint |-> <<>>, payload |-> <<>>,
         signature_string |-> <<>>, checker |-> <<>>, changed |-> 0,
         prev_payload |-> <<>>, prev_signature_string |-> <<>>,
         prev_checker |-> <<>>]

\* nothing is constructed
IdleCrypto ==
    /\ api_key = <<>>
    /\ crypto = NotBuilt
    /\ cop = NoOp

\* the server handles no request and has sent no response
NoRequest == [route |-> None, origin |-> FALSE, pc |-> "idle", status |-> 0,
              headers |-> {}]

NoResponse == [route |-> None, status |-> 0, headers |-> {}]

IdleWeb ==
    /\ hreq = NoRequest
    /\ hresp = NoResponse

\* the bridge client makes no request.  outcomes are the outcomes of the
\* attempts of the call so far, attempt is the loop variable
NoBridgeCall == [pc |-> "idle", method |-> None, attempt |-> 0,
                 outcomes |-> <<>>]

\* result is "returned" or the error raised
NoBridgeDone == [result |-> None, method |-> None, outcomes |-> <<>>]

IdleBridge ==
    /\ raises_on_redirect = TRUE
    /\ bcall = NoBridgeCall
    /\ bdone = NoBridgeDone

IdlePf == IdleCrypto /\ IdleWeb /\ IdleBridge

-----------------------------------------------------------------------------
\* every task calls the one client: concurrent callers of one RateLimiter
SharedClient == [t \in Tasks |-> 1]

\* every request handler builds its own client: client = AlgolabClient(...)
OwnClient == [t \in Tasks |-> t]

InitRL(mocks, clientOf) ==
    /\ now = 1
    /\ use_mock \in mocks
    /\ last_request_time = [c \in Clients |-> 0]
    /\ lockHolder = [c \in Clients |-> NoTask]
    /\ lockWaiters = [c \in Clients |-> <<>>]
    /\ \E h \in {None, "h1"} : hash = [c \in Clients |-> h]
    /\ token = [c \in Clients |-> None]
    /\ pc = [t \in Tasks |-> "idle"]
    /\ tclient = clientOf
    /\ top = [t \in Tasks |-> None]
    /\ targ = [t \in Tasks |-> NoArgs]
    /\ wakeAt = [t \in Tasks |-> 0]
    /\ gated = [t \in Tasks |-> FALSE]
    /\ nohash = [t \in Tasks |-> FALSE]
    /\ done = NoCall
    /\ ncalls = 0
    /\ prevRelease = [c \in Clients |-> 0]
    /\ lastSendAt = [c \in Clients |-> 0]
    /\ calledAt = [t \in Tasks |-> 0]

\* time passes
Tick ==
    /\ now < MaxTime
    /\ now' = now + 1
    /\ UNCHANGED <<use_mock, last_request_time, lockHolder, lockWaiters, hash,
                   token, pc, tclient, top, targ, wakeAt, gated, nohash,
                   done, ncalls, prevRelease, lastSendAt, calledAt>>
    /\ UNCHANGED <<ssvars, pfvars>>

\* wait_if_needed from the write of last_request_time on, and _make_request
\* up to its next suspension: the lock is released (handed to the first
\* waiter), the headers are built, and the request is sent unless the hash is
\* missing.  kind is the operation the task runs.
PassGate(t, c, kind) ==
    LET ws == lockWaiters[c]
        next == IF ws = <<>> THEN NoTask ELSE Head(ws)
        raise == MissingHash(c, kind)
    IN  /\ last_request_time' = [last_request_time EXCEPT ![c] = now]
        /\ prevRelease' = [prevRelease EXCEPT ![c] = last_request_time[c]]
        /\ lockHolder' = [lockHolder EXCEPT ![c] = LockAfterGate(t, next)]
        /\ lockWaiters' = [lockWaiters EXCEPT ![c] = IF ws = <<>> THEN <<>> ELSE Tail(ws)]
        /\ pc' = [u \in Tasks |->
                    IF u = t THEN (IF raise THEN "idle" ELSE "inflight")
                    ELSE IF u = next THEN "granted" ELSE pc[u]]
        /\ top' = [top EXCEPT ![t] = IF raise THEN None ELSE kind]
        /\ gated' = [gated EXCEPT ![t] = ~raise]
        /\ nohash' = [nohash EXCEPT ![t] = ~raise /\ hash[c] = None]
        /\ wakeAt' = [wakeAt EXCEPT ![t] = 0]
        /\ calledAt' = [calledAt EXCEPT ![t] = 0]
        /\ IF raise
           THEN /\ done' = [NoCall EXCEPT !.op = kind, !.result = "ValueError",
                                          !.gated = TRUE,
                                          !.nohash = hash[c] = None]
                /\ UNCHANGED lastSendAt
           ELSE /\ lastSendAt' = [lastSendAt EXCEPT ![c] = now]
                /\ UNCHANGED done

\* wait_if_needed with the lock held: read the clock, and sleep or go on
EnterGate(t, c, kind) ==
    IF NeedsWait(c, now)
    THEN /\ pc' = [pc EXCEPT ![t] = "sleeping"]
         /\ top' = [top EXCEPT ![t] = kind]
         /\ wakeAt' = [wakeAt EXCEPT ![t] = now + WaitTime(now - last_request_time[c])]
         /\ lockHolder' = [lockHolder EXCEPT ![c] = t]
         /\ calledAt' = [calledAt EXCEPT ![t] = IF pc[t] = "idle" THEN now ELSE @]
         /\ UNCHANGED <<last_request_time, lockWaiters, gated, nohash, done,
                        prevRelease, lastSendAt>>
    ELSE PassGate(t, c, kind)

\* a task calls an operation of its client
StartCall(t, op, temp_token, code, delay) ==
    /\ pc[t] = "idle"
    /\ ncalls < MaxCalls
    /\ ncalls' = ncalls + 1
    /\ targ' = [targ EXCEPT ![t] =
                  IF use_mock /\ op = "login_user_control"
                  THEN [temp_token |-> temp_token, sms_code |-> code]
                  ELSE NoArgs]
    /\ UNCHANGED <<now, use_mock, hash, token, tclient>>
    /\ UNCHANGED <<ssvars, pfvars>>
    /\ IF use_mock
       THEN \* return await self.mock_client.<op>(...): _simulate_delay
            /\ pc' = [pc EXCEPT ![t] = "mock_delay"]
            /\ top' = [top EXCEPT ![t] = OpKind(op)]
            /\ wakeAt' = [wakeAt EXCEPT ![t] = now + delay]
            /\ UNCHANGED <<last_request_time, lockHolder, lockWaiters, gated,
                           nohash, done, prevRelease, lastSendAt, calledAt>>
       ELSE IF LockFree(tclient[t])
       THEN EnterGate(t, tclient[t], OpKind(op))
       ELSE /\ lockWaiters' = [lockWaiters EXCEPT ![tclient[t]] = Append(@, t)]
            /\ pc' = [pc EXCEPT ![t] = "waiting"]
            /\ top' = [top EXCEPT ![t] = OpKind(op)]
            /\ calledAt' = [calledAt EXCEPT ![t] = now]
            /\ UNCHANGED <<last_request_time, lockHolder, wakeAt, gated, nohash,
                           done, prevRelease, lastSendAt>>

\* a waiter that was handed the lock runs on
Granted(t) ==
    /\ pc[t] = "granted"
    /\ UNCHANGED <<now, use_mock, hash, token, tclient, targ, ncalls>>
    /\ UNCHANGED <<ssvars, pfvars>>
    /\ EnterGate(t, tclient[t], top[t])

\* asyncio.sleep(wait_time) is over
Wake(t) ==
    /\ pc[t] = "sleeping"
    /\ now >= wakeAt[t]
    /\ UNCHANGED <<now, use_mock, hash, token, tclient, targ, ncalls>>
    /\ UNCHANGED <<ssvars, pfvars>>
    /\ PassGate(t, tclient[t], top[t])

\* a faulty variant: the token of the result is kept whatever the result is
StoresTokenAlways(kind, r) == kind \in LoginOps

\* login_user and login_user_control keep the token of a success
StoresToken(kind, r) == r = "success" /\ kind \in LoginOps

\* a faulty variant: the hash of a verification is not kept
StoresHashNever(kind, r) == FALSE

\* login_user_control keeps the hash of a success
StoresHash(kind, r) == r = "success" /\ kind = "login_user_control"

\* the broker's reply arrives: _check_response, and the login operations
\* keep the token and the hash of a success
Response(t, reply) ==
    /\ pc[t] = "inflight"
    /\ LET c == tclient[t]
           r == CheckResponse(reply)
       IN  /\ done' = [op |-> top[t], result |-> r, gated |-> gated[t],
                       sent |-> TRUE, nohash |-> nohash[t],
                       status |-> reply.status, temp |-> None, code |-> None,
                       rhash |-> IF r = "success" /\ top[t] = "login_user_control"
                                 THEN reply.hash ELSE None,
                       rtoken |-> IF r = "success" /\ top[t] \in LoginOps
                                  THEN reply.token ELSE None]
           /\ token' = [token EXCEPT ![c] =
                          IF StoresToken(top[t], r) THEN reply.token ELSE @]
           /\ hash' = [hash EXCEPT ![c] =
                          IF StoresHash(top[t], r) THEN reply.hash ELSE @]
    /\ pc' = [pc EXCEPT ![t] = "idle"]
    /\ top' = [top EXCEPT ![t] = None]
    /\ gated' = [gated EXCEPT ![t] = FALSE]
    /\ nohash' = [nohash EXCEPT ![t] = FALSE]
    /\ UNCHANGED <<now, use_mock, last_request_time, lockHolder, lockWaiters,
                   tclient, targ, wakeAt, ncalls, prevRelease, lastSendAt,
                   calledAt>>
    /\ UNCHANGED <<ssvars, pfvars>>

\* MockAlgolabClient: the simulated delay is over and the canned result is
\* returned
MockReturn(t, should_fail) ==
    /\ pc[t] = "mock_delay"
    /\ now >= wakeAt[t]
    /\ LET r == MockResult(top[t], targ[t].temp_token, targ[t].sms_code,
                            should_fail)
       IN  done' = [op |-> top[t], result |-> r, gated |-> gated[t],
                    sent |-> FALSE, nohash |-> hash[tclient[t]] = None,
                    status |-> 0, temp |-> targ[t].temp_token,
                    code |-> targ[t].sms_code,
                    rhash |-> IF r = "success" /\ top[t] = "login_user_control"
                              THEN MockHash ELSE None,
                    rtoken |-> IF r = "success" /\ top[t] \in LoginOps
                               THEN MockToken ELSE None]
    /\ pc' = [pc EXCEPT ![t] = "idle"]
    /\ top' = [top EXCEPT ![t] = None]
    /\ targ' = [targ EXCEPT ![t] = NoArgs]
    /\ wakeAt' = [wakeAt EXCEPT ![t] = 0]
    /\ UNCHANGED <<now, use_mock, last_request_time, lockHolder, lockWaiters,
                   hash, token, tclient, gated, nohash, ncalls, prevRelease,
                   lastSendAt, calledAt>>
    /\ UNCHANGED <<ssvars, pfvars>>

NextRL ==
    \/ Tick
    \/ \E t \in Tasks, op \in Ops, temp_token \in TempTokens, code \in SmsCodes,
          delay \in {MockDelayMin, MockDelayMax} :
             StartCall(t, op, temp_token, code, delay)
    \/ \E t \in Tasks : Granted(t)
    \/ \E t \in Tasks : Wake(t)
    \/ \E t \in Tasks, reply \in BrokerReplies : Response(t, reply)
    \/ \E t \in Tasks, should_fail \in BOOLEAN : MockReturn(t, should_fail)

\* the tasks of request handlers, each with its own client, in live mode:
\* no task ever waits for another's lock
NextHandlers ==
    \/ Tick
    \/ \E t \in Tasks, op \in Ops : StartCall(t, op, None, None, 0)
    \/ \E t \in Tasks : Wake(t)
    \/ \E t \in Tasks, reply \in BrokerReplies : Response(t, reply)

Init == InitRL(BOOLEAN, SharedClient) /\ InitStore({DefaultTtl}) /\ IdlePf

InitHandlers == InitRL({FALSE}, OwnClient) /\ InitStore({DefaultTtl}) /\ IdlePf

\* concurrent callers of one client, in live or in simulated mode
SpecRL == Init /\ [][NextRL]_vars

\* request handlers with a client each, in live mode
SpecHandlers == InitHandlers /\ [][NextHandlers]_vars

-----------------------------------------------------------------------------
(* The claims about the rate limiter and the client's operations *)

\* C1: on one RateLimiter, with sequential or concurrent callers, each value
\* written to last_request_time is at least min_interval later than the value
\* it replaces.
C1_ReleasesSpaced ==
    \A c \in Clients :
        prevRelease[c] > 0 => last_request_time[c] - prevRelease[c] >= MinInterval

\* C1's case: a caller was released after it slept out the interval while
\* another caller was queued behind it on the same limiter.
C1_Witness ==
    \E c \in Clients, t \in Tasks :
        /\ prevRelease[c] > 0
        /\ last_request_time[c] = now
        /\ pc[t] = "granted" /\ tclient[t] = c

\* C2: two broker calls started by two different request handlers of one
\* server process (each with the client it built) begin at least
\* min_interval apart.
C2_HandlersSpaced ==
    \A c1, c2 \in Clients :
        (c1 # c2 /\ lastSendAt[c1] > 0 /\ lastSendAt[c2] > 0)
        => \/ lastSendAt[c1] - lastSendAt[c2] >= MinInterval
           \/ lastSendAt[c2] - lastSendAt[c1] >= MinInterval

\* a request is sent in this step by task t
SendsNow(t) == pc[t] # "inflight" /\ pc'[t] = "inflight"

C4_OneCallerInGate ==
    \A t1, t2 \in Tasks :
        (pc[t1] = "sleeping" /\ pc[t2] = "sleeping" /\ tclient[t1] = tclient[t2])
        => (t1 = t2 /\ lockHolder[tclient[t1]] = t1)

\* C4's case: one caller sleeps in the gate while another waits for the lock
\* of the same limiter.
C4_Witness ==
    \E t1, t2 \in Tasks :
        /\ pc[t1] = "sleeping" /\ pc[t2] = "waiting"
        /\ tclient[t1] = tclient[t2]

C18_StatusMapping ==
    (done.sent /\ done.status # 0)
        => /\ done.status = 429 <=> done.result = "RateLimitExceeded"
           /\ done.status \notin {200, 429} <=> done.result = "AlgolabApiError"
           /\ done.status = 200 <=> done.result \in {"success", "failure"}

\* C18's case: the broker answered 429
C18_Witness ==
    /\ done.sent
    /\ done.status = 429
    /\ done.result = "RateLimitExceeded"

\* a task's call returns to its caller
Returns(t) == pc[t] \in {"inflight", "mock_delay"} /\ pc'[t] = "idle"

\* the client holds what the success of a login operation carried
LoginKept(t) ==
    /\ (done'.result = "success" /\ done'.op = "login_user")
          => token'[tclient[t]] = done'.rtoken
    /\ (done'.result = "success" /\ done'.op = "login_user_control")
          => /\ hash'[tclient[t]] = done'.rhash
             /\ token'[tclient[t]] = done'.rtoken

\* C20 as stated: in live and in simulated mode, when login_user returns a
\* success the client holds its token, and when login_user_control returns a
\* success the client holds its hash and token.
C20_LoginKept == [][ \A t \in Tasks : Returns(t) => LoginKept(t) ]_vars

\* C20: in live mode, when login_user returns a success the client holds its
\* token, and when login_user_control returns a success the client holds its
\* hash and token.
C20_LiveLoginKept ==
    [][ \A t \in Tasks : (~use_mock /\ Returns(t)) => LoginKept(t) ]_vars

\* C20's case: a live login_user_control has succeeded
C20_Witness ==
    /\ ~use_mock
    /\ done.op = "login_user_control"
    /\ done.result = "success"
    /\ done.rhash = "h1"
    /\ \E c \in Clients : hash[c] = "h1" /\ token[c] = "t1"

\* C21: in simulated mode login_user_control with sms_code "000000" returns
\* a failure whatever the temp_token and the failure draw are: its result is
\* no success and carries no hash, and the client's hash stays as it was.
C21_ZeroCodeFails ==
    [][ \A t \in Tasks :
          (/\ pc[t] = "mock_delay" /\ pc'[t] = "idle"
           /\ top[t] = "login_user_control"
           /\ targ[t].sms_code = "000000")
          => /\ done'.result = "failure"
             /\ done'.rhash = None
             /\ hash' = hash ]_vars

\* C21's case: a simulated login_user_control with the all-zero code has
\* returned
C21_Witness ==
    /\ use_mock
    /\ done.op = "login_user_control"
    /\ done.code = "000000"
    /\ done.result = "failure"

\* task t goes to sleep in wait_if_needed
FallsAsleep(t) == pc[t] # "sleeping" /\ pc'[t] = "sleeping"

\* a caller of task t's limiter leaves wait_if_needed without having slept:
\* last_request_time is written and no sleeper woke
PassesAwake(t) ==
    /\ pc[t] \in {"idle", "granted"}
    /\ last_request_time'[tclient[t]] # last_request_time[tclient[t]]
    /\ \A u \in Tasks : pc[u] = "sleeping" => pc'[u] = "sleeping"

\* C22: a caller of wait_if_needed sleeps only if the limiter has released
\* a caller before (never on the first call of a fresh limiter) and less
\* than min_interval has passed since that release; it then sleeps
\* min_interval - elapsed + 0.1 s; and a caller that does not sleep found
\* the limiter fresh or the interval over.
C22_SleepsOnlyInsideInterval ==
    [][ \A t \in Tasks :
          LET last == last_request_time[tclient[t]]
              elapsed == now - last
          IN  /\ FallsAsleep(t)
                   => /\ last > 0
                      /\ elapsed < MinInterval
                      /\ wakeAt'[t] - now = MinInterval - elapsed + Margin
              /\ PassesAwake(t) => (last = 0 \/ elapsed >= MinInterval) ]_vars

\* C22's case: a later caller sleeps while the first caller's request is in
\* flight
C22_Witness ==
    \E t, u \in Tasks :
        /\ pc[t] = "sleeping" /\ pc[u] = "inflight"
        /\ tclient[t] = tclient[u]
        /\ wakeAt[t] > now

\* C31 as claimed: the suspension of a wait_if_needed call is due to end at
\* most min_interval + 0.1 s after the call was made, also for a caller that
\* found others holding or waiting for the limiter's lock.
C31_SuspendedAtMostInterval ==
    [][ \A t \in Tasks :
          FallsAsleep(t) => wakeAt'[t] - calledAt'[t] <= MinInterval + Margin ]_vars

\* C31 as amended: the sleep of a wait_if_needed call lasts at most
\* min_interval + 0.1 s from the moment the caller holds the limiter's lock;
\* for a caller that found the lock free that is the moment of the call.
C31_SleepsAtMostInterval ==
    [][ \A t \in Tasks :
          FallsAsleep(t)
             => /\ wakeAt'[t] - now <= MinInterval + Margin
                /\ wakeAt'[t] > now
                /\ pc[t] = "idle"
                      => wakeAt'[t] - calledAt'[t] <= MinInterval + Margin ]_vars

\* C31's case: a caller that waited for the lock behind a sleeping caller is
\* asleep itself, until later than min_interval + 0.1 s after its call
C31_Witness ==
    \E t \in Tasks :
        /\ pc[t] = "sleeping"
        /\ calledAt[t] > 0
        /\ wakeAt[t] - calledAt[t] > MinInterval + Margin

\* C32: the limiter's lock is not held by a caller whose request is in
\* flight, and whoever holds it is inside wait_if_needed (asleep, or about to
\* run); a call that finds the lock free and min_interval over since the last
\* release is not suspended, whatever requests are in flight.
C32_GateIgnoresFlight ==
    [][ /\ \A t \in Tasks :
             pc'[t] = "inflight" => lockHolder'[tclient[t]] # t
        /\ \A c \in Clients :
             lockHolder'[c] # NoTask
                => pc'[lockHolder'[c]] \in {"sleeping", "granted"}
        /\ \A t \in Tasks :
             (/\ pc[t] = "idle" /\ pc'[t] \in {"sleeping", "waiting"})
                => \/ lockHolder[tclient[t]] # NoTask
                   \/ now - last_request_time[tclient[t]] < MinInterval ]_vars

\* C32's case: two requests of one client are in flight, the second sent
\* min_interval or more after the first was released
C32_Witness ==
    /\ ~use_mock
    /\ \E t, u \in Tasks :
          /\ t # u /\ tclient[t] = tclient[u]
          /\ pc[t] = "inflight" /\ pc[u] = "inflight"
          /\ prevRelease[tclient[t]] > 0
          /\ lockHolder[tclient[t]] = NoTask

\* C35: a login_user or login_user_control that returns no success (a
\* success:false body, a status that is not 200, a transport error or a
\* timeout) leaves the hash and the token of the client as they were.
C35_FailedLoginKeepsState ==
    [][ \A t \in Tasks :
          (Returns(t) /\ top[t] \in LoginOps /\ done'.result # "success")
             => /\ hash' = hash
                /\ token' = token ]_vars

\* C35's case: a live login failed on a client that holds the token of an
\* earlier login
C35_Witness ==
    /\ ~use_mock
    /\ done.op \in LoginOps
    /\ done.sent
    /\ done.result \in {"failure", "AlgolabApiError", "RateLimitExceeded",
                        "TransportError"}
    /\ \E c \in Clients : token[c] = "t1"

\* C36: in simulated mode login_user_control returns a success only for a
\* temp_token that a successful login_user returned before; here, its
\* consequence that the temp_token is one the simulated login_user hands out.
C36_VerifiesIssuedToken ==
    (use_mock /\ done.op = "login_user_control" /\ done.result = "success")
        => done.temp = MockToken

\* an authenticated call of task t is rejected in this step for the missing
\* hash: at the call, or when the task leaves wait_if_needed later
RejectedNow(t) ==
    /\ done'.result = "ValueError"
    /\ \/ pc[t] \in {"granted", "sleeping"} /\ pc'[t] = "idle"
       \/ pc[t] = "idle" /\ ncalls' # ncalls /\ pc' = pc

\* C37: an authenticated call that is rejected for the missing hash sends no
\* request and leaves last_request_time of its limiter as it was.
C37_RejectionLeavesLimiter ==
    [][ \A t \in Tasks :
          RejectedNow(t)
             => /\ lastSendAt' = lastSendAt
                /\ last_request_time' = last_request_time ]_vars

-----------------------------------------------------------------------------
(* The session store and the request handlers that use it.  Every await of  *)
(* a handler is a step of its own, so that other handlers run in between.   *)
(* A store operation takes ok: FALSE is the store failing to answer.        *)

\* the routes that take a session id, and SessionManager.update_session
\* called on its own
SessionRoutes == {"refresh_session", "send_order", "get_portfolio"}

\* the methods of SessionManager called on their own
ManagerCalls == {"update_session", "get_session", "delete_session"}

Routes == {"verify_sms", "health"} \cup ManagerCalls \cup SessionRoutes

\* where a request starts
FirstStep(route) ==
    IF route = "verify_sms" THEN "vs_broker"
    ELSE IF route = "update_session" THEN "upd_read"
    ELSE IF route = "get_session" THEN "get"
    ELSE IF route = "delete_session" THEN "del"
    ELSE IF route = "health" THEN "ping"
    ELSE "lookup"

\* redis_client.ping(): it answers, it raises, or there is no client since
\* connect() never succeeded
Pings == {"pong", "raises", "no_client"}

\* what login_user_control yields to verify_sms: a result with or without
\* a hash, or an exception
VerifyOutcomes ==
    [result : {"success"}, hash : {"h1", "", None}, token : {"t1"}]
    \cup [result : {"failure", "raise"}, hash : {None}, token : {None}]

BrokerResults == {"success", "failure", "raise"}

\* python's "not v" for a string or None
Falsy(v) == v \in {None, ""}

Max(a, b) == IF a >= b THEN a ELSE b

\* the handler goes on to its next await
Handle(h, r) == hnd' = [hnd EXCEPT ![h] = r] /\ UNCHANGED answer

\* the handler answers: what it held is dropped, what it did is kept
Answer(h, status, look, storefail, setex) ==
    /\ hnd' = [hnd EXCEPT ![h] = IdleHandler]
    /\ answer' = [kind |-> hnd[h].kind, status |-> status,
                  called |-> hnd[h].called, look |-> look,
                  storefail |-> storefail, setex |-> setex, ret |-> None,
                  closed |-> hnd[h].closed]

\* the handler answers with a status and a result
Return(h, status, ret) ==
    /\ hnd' = [hnd EXCEPT ![h] = IdleHandler]
    /\ answer' = [NoAnswer EXCEPT !.kind = hnd[h].kind, !.status = status,
                                  !.called = hnd[h].called,
                                  !.look = hnd[h].look, !.ret = ret,
                                  !.closed = hnd[h].closed]

\* "await client.close()" stands after the broker call, outside any
\* "finally": it runs if the call returned, not if it raised
ClosesClient(result) == result # "raise"

\* the handler answers when its broker call has returned or raised
AnswerBroker(h, status, ret, result) ==
    /\ hnd' = [hnd EXCEPT ![h] = IdleHandler]
    /\ answer' = [NoAnswer EXCEPT !.kind = hnd[h].kind, !.status = status,
                                  !.called = hnd[h].called,
                                  !.look = hnd[h].look, !.ret = ret,
                                  !.closed = ClosesClient(result)]

\* the handler answers with a status
Respond(h, status) == Answer(h, status, hnd[h].look, FALSE, NoSetex)

\* get_algolab_session found no session: 401
RespondAbsent(h) == Answer(h, 401, "absent", FALSE, NoSetex)

\* the store raised: the handler's "except Exception" answers 500
StoreFailed(h) == Answer(h, 500, hnd[h].look, TRUE, NoSetex)

\* the store drops the keys whose expiry has come
Expired(sid, time) == store[sid] # NoData /\ storeExp[sid] <= time

TickStore ==
    /\ utcnow + TickStep <= MaxClock
    /\ utcnow' = utcnow + TickStep
    /\ store' = [sid \in Sids |-> IF Expired(sid, utcnow') THEN NoData ELSE store[sid]]
    /\ storeExp' = [sid \in Sids |-> IF Expired(sid, utcnow') THEN 0 ELSE storeExp[sid]]
    /\ gone' = [sid \in Sids |-> gone[sid] \/ Expired(sid, utcnow')]
    /\ UNCHANGED <<ttl_seconds, nextSid, hnd, nreq, answer>>
    /\ UNCHANGED <<rlvars, pfvars>>

\* delete_session has answered: a record that was there is gone
Deleted(sid, ok) ==
    gone' = [gone EXCEPT ![sid] = @ \/ (ok /\ store[sid] # NoData)]

\* the sessions that verify_sms requests under way may still create
PendingCreates == Cardinality({h \in Handlers : hnd[h].pc \in {"vs_broker", "vs_create"}})

\* a request arrives.  verify_sms builds its client and calls
\* login_user_control; a session route starts at get_algolab_session;
\* update_session starts at its get_session.
Request(h, route, sid, extend_ttl, new_hash) ==
    /\ hnd[h].pc = "idle"
    /\ nreq < MaxRequests
    /\ nreq' = nreq + 1
    /\ route = "verify_sms" => nextSid + PendingCreates <= Cardinality(Sids)
    /\ Handle(h, [IdleHandler EXCEPT
                    !.kind = route,
                    !.pc = FirstStep(route),
                    !.sid = IF route \in {"verify_sms", "health"} THEN 0 ELSE sid,
                    !.extend_ttl = IF route = "update_session" THEN extend_ttl
                                   ELSE route = "refresh_session",
                    !.hash = IF route = "update_session" THEN new_hash ELSE None,
                    !.called = route = "verify_sms"])
    /\ UNCHANGED <<utcnow, ttl_seconds, store, storeExp, nextSid>>
    /\ UNCHANGED <<rlvars, pfvars, gone>>

\* verify_sms's checks of the result: "if not result.get('success')" and
\* "if not auth_hash"
VerifyAcceptsAnySuccess(outcome) == outcome.result = "success"

VerifyAccepts(outcome) == outcome.result = "success" /\ ~Falsy(outcome.hash)

\* verify_sms: login_user_control has returned or raised
VerifyBroker(h, outcome) ==
    /\ hnd[h].pc = "vs_broker"
    /\ IF outcome.result = "raise"
       THEN AnswerBroker(h, 500, None, outcome.result)
       ELSE IF outcome.result # "success"
       THEN AnswerBroker(h, 401, None, outcome.result)
       ELSE IF ~VerifyAccepts(outcome)
       THEN AnswerBroker(h, 500, None, outcome.result)
       ELSE Handle(h, [hnd[h] EXCEPT !.pc = "vs_create",
                                     !.hash = outcome.hash,
                                     !.closed = ClosesClient(outcome.result),
                                     !.acked = TRUE,
                                     !.sess = [NoSession EXCEPT
                                                 !.hash = outcome.hash,
                                                 !.token = outcome.token]])
    /\ UNCHANGED <<utcnow, ttl_seconds, store, storeExp, nextSid, nreq>>
    /\ UNCHANGED <<rlvars, pfvars, gone>>

\* expires_at of a session created or extended at a time
SessionExpiryNow(time) == time

SessionExpiry(time) == time + ttl_seconds

\* create_session up to its setex: a fresh id and the session object.  A
\* hash that is not a string fails the model's validation.
CreateSession(h) ==
    /\ hnd[h].pc = "vs_create"
    /\ IF hnd[h].hash = None
       THEN /\ Respond(h, 500)
            /\ UNCHANGED nextSid
       ELSE /\ Handle(h, [hnd[h] EXCEPT
                            !.pc = "vs_setex",
                            !.sid = nextSid,
                            !.sess = [api_key |-> ApiKey,
                                      hash |-> hnd[h].hash,
                                      token |-> hnd[h].sess.token,
                                      created_at |-> utcnow,
                                      expires_at |-> SessionExpiry(utcnow),
                                      last_refreshed_at |-> Never]])
            /\ nextSid' = nextSid + 1
    /\ UNCHANGED <<utcnow, ttl_seconds, store, storeExp, nreq>>
    /\ UNCHANGED <<rlvars, pfvars, gone>>

\* create_session's setex(key, ttl_seconds, ...), and verify_sms's answer
CreateSetex(h, ok) ==
    /\ hnd[h].pc = "vs_setex"
    /\ IF ok /\ ttl_seconds > 0
       THEN /\ store' = [store EXCEPT ![hnd[h].sid] = Dump(hnd[h].sess)]
            /\ storeExp' = [storeExp EXCEPT ![hnd[h].sid] = utcnow + ttl_seconds]
            /\ Respond(h, 200)
       ELSE /\ StoreFailed(h)
            /\ UNCHANGED <<store, storeExp>>
    /\ UNCHANGED <<utcnow, ttl_seconds, nextSid, nreq>>
    /\ UNCHANGED <<rlvars, pfvars, gone>>

\* get_algolab_session's check: datetime.utcnow() > session.expires_at
SessionExpiredNever(session, time) == FALSE

SessionExpired(session, time) == time > session.expires_at

\* what get_algolab_session finds under a session id
Lookup(data, time) ==
    IF data = NoData THEN "absent"
    ELSE IF ~Decodes(data) THEN "corrupt"
    ELSE IF SessionExpired(Validate(data), time) THEN "expired"
    ELSE "found"

\* get_algolab_session raises unless it found an unexpired session
RejectsNever(look) == FALSE

Rejects(look) == look # "found"

\* get_algolab_session: get_session and the check of expires_at.  A found,
\* unexpired session goes into a new client and the route's broker call.
GetAlgolabSession(h, ok) ==
    /\ hnd[h].pc = "lookup"
    /\ LET data == store[hnd[h].sid]
           session == IF Decodes(data) THEN Validate(data) ELSE NoSession
           look == Lookup(data, utcnow)
       IN  IF ~ok THEN StoreFailed(h)
           ELSE IF ~Rejects(look)
           THEN Handle(h, [hnd[h] EXCEPT !.pc = "broker", !.look = look,
                                         !.sess = session, !.called = TRUE])
           ELSE IF look = "absent"
           THEN RespondAbsent(h)
           ELSE IF look = "corrupt"
           THEN Handle(h, [hnd[h] EXCEPT !.pc = "del_corrupt", !.look = look])
           ELSE Handle(h, [hnd[h] EXCEPT !.pc = "del_expired", !.look = look])
    /\ UNCHANGED <<utcnow, ttl_seconds, store, storeExp, nextSid, nreq>>
    /\ UNCHANGED <<rlvars, pfvars, gone>>

\* get_algolab_session: delete_session of the expired record, then 401
DeleteExpired(h, ok) ==
    /\ hnd[h].pc = "del_expired"
    /\ IF ok
       THEN /\ store' = [store EXCEPT ![hnd[h].sid] = NoData]
            /\ storeExp' = [storeExp EXCEPT ![hnd[h].sid] = 0]
            /\ Respond(h, 401)
       ELSE /\ StoreFailed(h)
            /\ UNCHANGED <<store, storeExp>>
    /\ UNCHANGED <<utcnow, ttl_seconds, nextSid, nreq>>
    /\ Deleted(hnd[h].sid, ok)
    /\ UNCHANGED <<rlvars, pfvars>>

\* what get_session leaves in the store of data that does not deserialize
HealedDataKept(data) == data

HealedData(data) == NoData

\* get_session on data that does not deserialize: delete_session, and None
\* to the caller, which is get_algolab_session, update_session or the task
DeleteCorrupt(h, ok) ==
    /\ hnd[h].pc \in {"del_corrupt", "upd_del_corrupt"}
    /\ IF ok
       THEN /\ store' = [store EXCEPT ![hnd[h].sid] = HealedData(@)]
            /\ storeExp' = [storeExp EXCEPT ![hnd[h].sid] = 0]
            /\ IF hnd[h].pc = "upd_del_corrupt"
               THEN Respond(h, IF hnd[h].kind = "refresh_session" THEN 500 ELSE 404)
               ELSE IF hnd[h].kind = "get_session"
               THEN Return(h, 200, "absent")
               ELSE RespondAbsent(h)
       ELSE /\ StoreFailed(h)
            /\ UNCHANGED <<store, storeExp>>
    /\ UNCHANGED <<utcnow, ttl_seconds, nextSid, nreq>>
    /\ Deleted(hnd[h].sid, ok)
    /\ UNCHANGED <<rlvars, pfvars>>

\* get_session called on its own
GetSession(h, ok) ==
    /\ hnd[h].pc = "get"
    /\ LET data == store[hnd[h].sid]
       IN  IF ~ok THEN StoreFailed(h)
           ELSE IF data = NoData THEN Return(h, 200, "absent")
           ELSE IF ~Decodes(data)
           THEN Handle(h, [hnd[h] EXCEPT !.pc = "del_corrupt", !.look = "corrupt"])
           ELSE Return(h, 200, "session")
    /\ UNCHANGED <<utcnow, ttl_seconds, store, storeExp, nextSid, nreq>>
    /\ UNCHANGED <<rlvars, pfvars, gone>>

\* delete_session's "return result > 0"
DeleteResultAlways(result) == result >= 0

DeleteResult(result) == result > 0

\* delete_session called on its own: redis_client.delete(key) answers the
\* number of keys it removed
DeleteSession(h, ok) ==
    /\ hnd[h].pc = "del"
    /\ IF ok
       THEN LET result == IF store[hnd[h].sid] = NoData THEN 0 ELSE 1
            IN  /\ store' = [store EXCEPT ![hnd[h].sid] = NoData]
                /\ storeExp' = [storeExp EXCEPT ![hnd[h].sid] = 0]
                /\ Return(h, 200, IF DeleteResult(result) THEN "true" ELSE "false")
       ELSE /\ StoreFailed(h)
            /\ UNCHANGED <<store, storeExp>>
    /\ UNCHANGED <<utcnow, ttl_seconds, nextSid, nreq>>
    /\ Deleted(hnd[h].sid, ok)
    /\ UNCHANGED <<rlvars, pfvars>>

\* SessionManager.health_check: the ping inside try/except Exception
HealthCheckUnguarded(ping) ==
    IF ping = "pong" THEN "true" ELSE IF ping = "raises" THEN "false" ELSE "raise"

HealthCheck(ping) == IF ping = "pong" THEN "true" ELSE "false"

\* GET /health: status "healthy" with the store's state beside it
Health(h, ping) ==
    /\ hnd[h].pc = "ping"
    /\ LET redis_healthy == HealthCheck(ping)
       IN  /\ hnd' = [hnd EXCEPT ![h] = IdleHandler]
           /\ answer' = [NoAnswer EXCEPT
                           !.kind = hnd[h].kind,
                           !.status = IF redis_healthy = "raise" THEN 500 ELSE 200,
                           !.look = ping,
                           !.ret = IF redis_healthy = "true" THEN "connected"
                                   ELSE "not_configured"]
    /\ UNCHANGED <<utcnow, ttl_seconds, store, storeExp, nextSid, nreq>>
    /\ UNCHANGED <<rlvars, pfvars, gone>>

\* something other than this program overwrites a session's data in the
\* store with data that is not a session
Corrupt(sid) ==
    /\ Decodes(store[sid])
    /\ nreq < MaxRequests
    /\ nreq' = nreq + 1
    /\ store' = [store EXCEPT ![sid] = Undecodable]
    /\ UNCHANGED <<utcnow, ttl_seconds, storeExp, nextSid, hnd, answer>>
    /\ UNCHANGED <<rlvars, pfvars, gone>>

\* a faulty variant: every route writes the session back after its call
UpdatesSessionAlways(kind) == TRUE

\* the routes that call session_manager.update_session after the broker call
UpdatesSession(kind) == kind = "refresh_session"

\* a faulty variant: a refresh that the broker refused counts as well
AcknowledgedAlways(result) == TRUE

\* refresh_session's "if not result.get('success'): raise": it goes on
Acknowledged(result) == result = "success"

\* the route's broker call has returned or raised
BrokerReturn(h, result) ==
    /\ hnd[h].pc = "broker"
    /\ IF result = "raise"
       THEN AnswerBroker(h, 500, result, result)
       ELSE IF UpdatesSession(hnd[h].kind)
       THEN IF Acknowledged(result)
            THEN Handle(h, [hnd[h] EXCEPT !.pc = "upd_read", !.sess = NoSession,
                                          !.closed = ClosesClient(result),
                                          !.acked = result = "success"])
            ELSE AnswerBroker(h, 401, result, result)
       ELSE IF hnd[h].kind = "send_order" /\ result # "success"
       THEN AnswerBroker(h, 400, result, result)
       ELSE AnswerBroker(h, 200, result, result)
    /\ UNCHANGED <<utcnow, ttl_seconds, store, storeExp, nextSid, nreq>>
    /\ UNCHANGED <<rlvars, pfvars, gone>>

\* update_session's get_session has data to work on
UpdateFindsAlways(data) == TRUE

UpdateFinds(data) == data # NoData

\* update_session: get_session, the new fields, and the ttl of an extension.
\* Without a session it returns None, which refresh_session dereferences.
UpdateRead(h, ok) ==
    /\ hnd[h].pc = "upd_read"
    /\ LET data == store[hnd[h].sid]
           session == IF Decodes(data) THEN Validate(data) ELSE NoSession
           e == hnd[h].extend_ttl
       IN  IF ~ok THEN StoreFailed(h)
           ELSE IF ~UpdateFinds(data)
           THEN Respond(h, IF hnd[h].kind = "refresh_session" THEN 500 ELSE 404)
           ELSE IF data # NoData /\ ~Decodes(data)
           THEN Handle(h, [hnd[h] EXCEPT !.pc = "upd_del_corrupt",
                                         !.look = "corrupt"])
           ELSE Handle(h, [hnd[h] EXCEPT
                    !.pc = IF e THEN "upd_setex" ELSE "upd_ttl",
                    !.ttl = IF e THEN ttl_seconds ELSE 0,
                    !.sess = [session EXCEPT
                        !.hash = IF Falsy(hnd[h].hash) THEN @ ELSE hnd[h].hash,
                        !.last_refreshed_at = utcnow,
                        !.expires_at = IF e THEN SessionExpiry(utcnow) ELSE @]])
    /\ UNCHANGED <<utcnow, ttl_seconds, store, storeExp, nextSid, nreq>>
    /\ UNCHANGED <<rlvars, pfvars, gone>>

\* update_session without extension: redis_client.ttl(key)
UpdateTtl(h, ok) ==
    /\ hnd[h].pc = "upd_ttl"
    /\ IF ~ok THEN StoreFailed(h)
       ELSE Handle(h, [hnd[h] EXCEPT
                !.pc = "upd_setex",
                !.ttl = IF store[hnd[h].sid] = NoData THEN KeyMissing
                        ELSE storeExp[hnd[h].sid] - utcnow])
    /\ UNCHANGED <<utcnow, ttl_seconds, store, storeExp, nextSid, nreq>>
    /\ UNCHANGED <<rlvars, pfvars, gone>>

\* the expiry update_session hands to setex
SetexSecondsNoFloor(ttl) == ttl

\* a faulty variant: the configured lifetime is passed whatever was read
SetexSecondsFull(ttl) == Max(ttl_seconds, MinStoreTtl)

SetexSeconds(ttl) == Max(ttl, MinStoreTtl)

\* update_session of handler g has read the record that the extending
\* update_session of handler h now writes, and has not written yet
Overtaken(g, h) ==
    /\ hnd[h].extend_ttl
    /\ hnd[g].pc \in {"upd_ttl", "upd_setex"}
    /\ hnd[g].sid = hnd[h].sid

\* update_session's setex(key, max(ttl, 60), ...).  The store refuses an
\* expiry that is not positive.
UpdateSetex(h, ok) ==
    /\ hnd[h].pc = "upd_setex"
    /\ LET seconds == SetexSeconds(hnd[h].ttl)
           stored == ok /\ seconds > 0
           setex == [issued |-> TRUE, extend_ttl |-> hnd[h].extend_ttl,
                     ttl |-> hnd[h].ttl, seconds |-> seconds,
                     raced |-> hnd[h].raced]
       IN  IF stored
           THEN /\ store' = [store EXCEPT ![hnd[h].sid] = Dump(hnd[h].sess)]
                /\ storeExp' = [storeExp EXCEPT ![hnd[h].sid] = utcnow + seconds]
                /\ hnd' = [g \in Handlers |->
                             IF g = h THEN IdleHandler
                             ELSE IF Overtaken(g, h)
                             THEN [hnd[g] EXCEPT !.raced = TRUE]
                             ELSE hnd[g]]
                /\ answer' = [NoAnswer EXCEPT !.kind = hnd[h].kind,
                                              !.status = 200,
                                              !.called = hnd[h].called,
                                              !.look = hnd[h].look,
                                              !.setex = setex,
                                              !.closed = hnd[h].closed]
           ELSE /\ Answer(h, 500, hnd[h].look, TRUE, setex)
                /\ UNCHANGED <<store, storeExp>>
    /\ UNCHANGED <<utcnow, ttl_seconds, nextSid, nreq>>
    /\ UNCHANGED <<rlvars, pfvars, gone>>

NextSess ==
    \/ TickStore
    \/ \E h \in Handlers, route \in Routes, sid \in Sids,
          extend_ttl \in BOOLEAN, new_hash \in {None, "h2"} :
            Request(h, route, sid, extend_ttl, new_hash)
    \/ \E h \in Handlers, outcome \in VerifyOutcomes : VerifyBroker(h, outcome)
    \/ \E h \in Handlers : CreateSession(h)
    \/ \E h \in Handlers, ok \in BOOLEAN : CreateSetex(h, ok)
    \/ \E h \in Handlers, ok \in BOOLEAN : GetAlgolabSession(h, ok)
    \/ \E h \in Handlers, ok \in BOOLEAN : DeleteExpired(h, ok)
    \/ \E h \in Handlers, result \in BrokerResults : BrokerReturn(h, result)
    \/ \E h \in Handlers, ok \in BOOLEAN : UpdateRead(h, ok)
    \/ \E h \in Handlers, ok \in BOOLEAN : UpdateTtl(h, ok)
    \/ \E h \in Handlers, ok \in BOOLEAN : UpdateSetex(h, ok)
    \/ \E h \in Handlers, ok \in BOOLEAN : DeleteCorrupt(h, ok)
    \/ \E h \in Handlers, ok \in BOOLEAN : GetSession(h, ok)
    \/ \E h \in Handlers, ok \in BOOLEAN : DeleteSession(h, ok)
    \/ \E h \in Handlers, ping \in Pings : Health(h, ping)
    \/ \E sid \in Sids : Corrupt(sid)

\* the rate limiter's variables play no part in the session store's steps
InitSess ==
    /\ InitRL({FALSE}, OwnClient)
    /\ hash = [c \in Clients |-> None]
    /\ InitStore(TtlChoices)
    /\ IdlePf

SpecSess == InitSess /\ [][NextSess]_vars

-----------------------------------------------------------------------------
(* The claims about the session store *)

\* handler h takes a step (the note that another handler overtook it is
\* not a step of its own)
Acts(h) == [hnd'[h] EXCEPT !.raced = FALSE] # [hnd[h] EXCEPT !.raced = FALSE]

\* C5: every session record written to the store has a non-empty hash;
\* verify_sms comes to create_session only with the non-empty hash of a
\* successful login_user_control, and a verification that fails, raises or
\* succeeds without a hash writes nothing to the store.
C5_OnlyVerifiedStored ==
    [][ /\ \A sid \in Sids :
             Decodes(store'[sid]) => ~Falsy(Validate(store'[sid]).hash)
        /\ \A h \in Handlers :
             /\ hnd'[h].pc \in {"vs_create", "vs_setex"} => ~Falsy(hnd'[h].hash)
             /\ (Acts(h) /\ hnd[h].kind = "verify_sms" /\ hnd[h].pc # "vs_setex")
                   => (store' = store /\ storeExp' = storeExp) ]_vars

\* C5's case: a verification succeeded and its session is in the store
C5_Witness ==
    /\ answer.kind = "verify_sms"
    /\ answer.status = 200
    /\ \E sid \in Sids : Decodes(store[sid]) /\ Validate(store[sid]).hash = "h1"

\* C7: a request whose session lookup found no record or an expired one is
\* answered 401 (500 if the store fails under it), and it has made no broker
\* call, no login and no session.
C7_NoSessionNoCall ==
    /\ answer.look \in {"absent", "expired"}
          => /\ ~answer.called
             /\ answer.kind \in SessionRoutes
             /\ ~answer.storefail => answer.status = 401
    /\ \A h \in Handlers :
          hnd[h].look \in {"absent", "expired"}
             => /\ hnd[h].pc = "del_expired"
                /\ ~hnd[h].called
                /\ hnd[h].kind \in SessionRoutes

\* C7's case: a request with an expired session has been answered 401
C7_Witness ==
    /\ answer.look = "expired"
    /\ answer.status = 401
    /\ answer.kind = "send_order"

\* C8: get_algolab_session returns no session whose expires_at is earlier than
\* the current time: it deletes such a record and rejects the request, and the
\* store then holds no record under that id.
C8_NoExpiredSessionReturned ==
    [][ \A h \in Handlers :
          /\ (Acts(h) /\ hnd[h].pc = "lookup" /\ hnd'[h].pc = "broker")
                => /\ hnd'[h].sess # NoSession
                   /\ hnd'[h].sess.expires_at >= utcnow
          /\ (Acts(h) /\ hnd[h].pc = "lookup" /\ Decodes(store[hnd[h].sid])
                /\ Validate(store[hnd[h].sid]).expires_at < utcnow
                /\ ~answer'.storefail)
                => hnd'[h].pc = "del_expired"
          /\ (Acts(h) /\ hnd[h].pc = "del_expired" /\ ~answer'.storefail)
                => /\ store'[hnd[h].sid] = NoData
                   /\ answer'.status = 401 ]_vars

\* C8's case: an expired record was found in the store, deleted and rejected
C8_Witness ==
    /\ answer.look = "expired"
    /\ answer.status = 401
    /\ answer.kind = "refresh_session"
    /\ \A sid \in Sids : store[sid] = NoData

\* C9: an update_session with extend_ttl that has written the record handed
\* the store an expiry of exactly ttl_seconds, whatever ttl_seconds is.
C9_ExtendExact ==
    (answer.setex.issued /\ answer.setex.extend_ttl /\ answer.status = 200)
        => answer.setex.seconds = ttl_seconds

\* C10: update_session without extend_ttl hands the store the remaining
\* lifetime it read, or 60 seconds if that is less, and so never an expiry of
\* zero or below, also when the key was gone by the time of the TTL query.
C10_KeepFloored ==
    (answer.setex.issued /\ ~answer.setex.extend_ttl)
        => /\ answer.setex.seconds > 0
           /\ answer.setex.seconds >= MinStoreTtl
           /\ answer.setex.ttl >= MinStoreTtl => answer.setex.seconds = answer.setex.ttl
           /\ answer.setex.ttl < MinStoreTtl => answer.setex.seconds = MinStoreTtl
           /\ answer.status = 200 \/ answer.storefail

\* C10's case: the key expired between update_session's read and its TTL
\* query, and the record was written back
C10_Witness ==
    /\ answer.setex.issued
    /\ ~answer.setex.extend_ttl
    /\ answer.setex.ttl = KeyMissing
    /\ answer.status = 200

\* C11 as stated: an update_session without extend_ttl that has written the
\* record handed the store the remaining lifetime it read, so that 10 s
\* remaining are 10 s after the update and the update lengthens nothing.
C11_KeepPreserves ==
    (answer.setex.issued /\ ~answer.setex.extend_ttl /\ answer.status = 200
        /\ answer.setex.ttl > 0)
        => answer.setex.seconds = answer.setex.ttl

\* C11: the record an update_session without extend_ttl writes leaves the
\* store after the remaining lifetime that was read if that is 60 s or more,
\* and after 60 s if it is less; its expires_at is the one that was read.
C11_KeepPreservesFromFloor ==
    [][ \A h \in Handlers :
          (Acts(h) /\ hnd[h].pc = "upd_setex" /\ ~hnd[h].extend_ttl
             /\ answer'.status = 200)
             => /\ store'[hnd[h].sid] = Dump(hnd[h].sess)
                /\ storeExp'[hnd[h].sid] - utcnow =
                      (IF hnd[h].ttl >= MinStoreTtl THEN hnd[h].ttl
                       ELSE MinStoreTtl) ]_vars

\* C11's case: a record with 10 s left was updated without extend_ttl
C11_Witness ==
    /\ answer.setex.issued
    /\ ~answer.setex.extend_ttl
    /\ answer.status = 200
    /\ answer.setex.ttl = 10
    /\ \E sid \in Sids : store[sid] # NoData /\ storeExp[sid] - utcnow = MinStoreTtl

\* C12: create_session builds a session with expires_at - created_at =
\* ttl_seconds under an id never handed out before, stores it with an expiry
\* of exactly ttl_seconds, and what get_session then reads back has the same
\* api_key, hash, token, created_at and expires_at.
C12_CreateThenGet ==
    [][ \A h \in Handlers :
          /\ (Acts(h) /\ hnd[h].pc = "vs_create" /\ hnd'[h].pc = "vs_setex")
                => /\ hnd'[h].sid = nextSid
                   /\ nextSid' > nextSid
                   /\ \A g \in Handlers \ {h} :
                         hnd[g].kind = "verify_sms" => hnd[g].sid # nextSid
                   /\ store[nextSid] = NoData
          /\ (Acts(h) /\ hnd[h].pc = "vs_setex" /\ answer'.status = 200)
                => LET session == hnd[h].sess
                       got == Validate(store'[hnd[h].sid])
                   IN  /\ session.expires_at - session.created_at = ttl_seconds
                       /\ storeExp'[hnd[h].sid] - utcnow = ttl_seconds
                       /\ Decodes(store'[hnd[h].sid])
                       /\ Lookup(store'[hnd[h].sid], session.created_at) = "found"
                       /\ got.api_key = ApiKey
                       /\ got.hash = session.hash
                       /\ got.token = session.token
                       /\ got.created_at = session.created_at
                       /\ got.expires_at = session.expires_at ]_vars

\* C12's case: two sessions were created and are in the store, the second
\* one just now
C12_Witness ==
    /\ answer.kind = "verify_sms"
    /\ answer.status = 200
    /\ nextSid = 3
    /\ \A sid \in Sids : Decodes(store[sid])
    /\ storeExp[2] - utcnow = ttl_seconds

\* C13: get_session that finds data it cannot deserialize deletes the key
\* and returns absent, so that the store holds nothing under the id when it
\* returns.
C13_CorruptRecordHealed ==
    [][ \A h \in Handlers :
          /\ (Acts(h) /\ hnd[h].pc = "get" /\ store[hnd[h].sid] # NoData
                /\ ~Decodes(store[hnd[h].sid]))
                => \/ hnd'[h].pc = "del_corrupt"
                   \/ hnd'[h].pc = "idle" /\ answer'.storefail
          /\ (Acts(h) /\ hnd[h].pc \in {"del_corrupt", "upd_del_corrupt"})
                => \/ answer'.storefail
                   \/ /\ store'[hnd[h].sid] = NoData
                      /\ hnd[h].kind = "get_session" => answer'.ret = "absent"
                      /\ Lookup(store'[hnd[h].sid], utcnow) = "absent" ]_vars

\* C13's case: get_session met data that is no session and has returned
C13_Witness ==
    /\ answer.kind = "get_session"
    /\ answer.look = "corrupt"
    /\ answer.ret = "absent"
    /\ \A sid \in Sids : store[sid] = NoData

\* C14: update_session for an id the store has nothing under returns None
\* and leaves the store as it is.
C14_UpdateAbsent ==
    [][ \A h \in Handlers :
          (Acts(h) /\ hnd[h].pc = "upd_read" /\ store[hnd[h].sid] = NoData)
             => /\ hnd'[h].pc = "idle"
                /\ store' = store
                /\ storeExp' = storeExp
                /\ \/ answer'.storefail
                   \/ answer'.status = (IF hnd[h].kind = "refresh_session"
                                        THEN 500 ELSE 404) ]_vars

\* C14's case: update_session was called for an id without a record
C14_Witness ==
    /\ answer.kind = "update_session"
    /\ answer.status = 404
    /\ answer.look = None
    /\ \A sid \in Sids : store[sid] = NoData

\* C15: delete_session returns true exactly if the store held something
\* under the id when it was called, and the store holds nothing under it
\* afterwards.
C15_DeleteReturnsExisted ==
    [][ \A h \in Handlers :
          (Acts(h) /\ hnd[h].pc = "del" /\ ~answer'.storefail)
             => /\ answer'.ret = (IF store[hnd[h].sid] # NoData THEN "true"
                                  ELSE "false")
                /\ store'[hnd[h].sid] = NoData ]_vars

\* C15's case: a stored session was deleted
C15_Witness ==
    /\ answer.kind = "delete_session"
    /\ answer.ret = "true"
    /\ nextSid > 1

\* C16: a store that fails fails no call: a verify_sms whose verification
\* succeeded is answered 200, and a request for a session route is not
\* answered 500 because of the store.
C16_StoreFailureTolerated ==
    /\ (answer.kind = "verify_sms" /\ answer.storefail) => answer.status = 200
    /\ (answer.kind \in SessionRoutes /\ answer.storefail) => answer.status # 500

\* C17: health_check returns false without raising when the ping raises or
\* there is no store client, and /health answers "healthy" whatever the
\* store's state.
C17_HealthAlwaysHealthy ==
    answer.kind = "health"
        => /\ answer.status = 200
           /\ answer.ret = "connected" <=> answer.look = "pong"
           /\ answer.look # "pong" => answer.ret = "not_configured"

\* C17's case: /health was asked while the store client was never connected
C17_Witness ==
    /\ answer.kind = "health"
    /\ answer.look = "no_client"
    /\ answer.status = 200

\* C19: a broker result of success:false is never handed back by a route as
\* its normal answer.
C19_LogicFailureIsError ==
    (answer.kind \in SessionRoutes /\ answer.ret = "failure")
        => answer.status # 200



\* handler h's update_session(extend_ttl=True) writes the record and
\* returns, after another one that ran beside it has done so
LaterWrite(h) ==
    /\ hnd[h].pc = "upd_setex" /\ hnd[h].extend_ttl /\ hnd[h].raced
    /\ Acts(h)
    /\ answer'.status = 200

\* C29: when the later of two concurrent update_session(extend_ttl=True)
\* calls for one session has written, the record is there, the store drops
\* it after ttl_seconds, and its expires_at is the now + ttl_seconds that
\* this writer computed.
C29_ConcurrentExtendsConverge ==
    [][ \A h \in Handlers :
          LaterWrite(h)
             => /\ Decodes(store'[hnd[h].sid])
                /\ storeExp'[hnd[h].sid] - utcnow = ttl_seconds
                /\ Validate(store'[hnd[h].sid]).expires_at
                      = hnd[h].sess.expires_at
                /\ \E t \in 0..utcnow :
                      hnd[h].sess.expires_at = t + ttl_seconds ]_vars

\* handler h's get_session returns
GetReturns(h) == hnd[h].kind = "get_session" /\ Acts(h) /\ hnd'[h].pc = "idle"

\* C30: a get_session for an id whose record delete_session has deleted, or
\* the store has dropped at its expiry, returns no session.
C30_GoneStaysGone ==
    [][ \A h \in Handlers :
          (GetReturns(h) /\ gone[hnd[h].sid]) => answer'.ret # "session" ]_vars

\* this step writes to the store
StoreChanges == store' # store \/ storeExp' # storeExp

\* C33: a refresh request that came to its broker call changes the session
\* record only after the broker's success: the step in which the call returns
\* changes nothing in the store; if the call raised or reported a failure the
\* request ends there (401 or 500), and only a request whose call succeeded
\* goes on to update_session.
C33_RefreshWritesAfterSuccess ==
    [][ \A h \in Handlers :
          (Acts(h) /\ hnd[h].kind = "refresh_session" /\ hnd[h].called)
             => /\ StoreChanges => hnd[h].acked
                /\ hnd[h].pc = "broker"
                      => /\ ~StoreChanges
                         /\ \/ /\ hnd'[h] = IdleHandler
                               /\ answer'.ret \in {"failure", "raise"}
                               /\ answer'.status \in {401, 500}
                               /\ ~answer'.setex.issued
                            \/ /\ hnd'[h].pc = "upd_read"
                               /\ hnd'[h].acked
                /\ hnd'[h].pc \in {"upd_read", "upd_setex", "upd_del_corrupt"}
                      => hnd'[h].acked ]_vars

\* C33's case: the broker refused a refresh, and the session never
\* refreshed is in the store
C33_Witness ==
    /\ answer.kind = "refresh_session"
    /\ answer.ret = "failure"
    /\ answer.status = 401
    /\ \E sid \in Sids :
          /\ Decodes(store[sid])
          /\ Validate(store[sid]).last_refreshed_at = Never
          /\ storeExp[sid] > utcnow

\* the routes with a session that are not the refresh: send_order as it is,
\* get_portfolio for the routes that return the broker's result unseen
\* (delete_order, modify_order, cash_flow, equity_info and the market data)
ReadingRoutes == SessionRoutes \ {"refresh_session"}

\* C34: a send-order, portfolio or like handler that found a valid session
\* writes nothing to the store, and ends when its broker call returns or
\* raises: the session it read and the hash and token it gave its client
\* are dropped, and update_session is not called.
C34_OnlyRefreshWrites ==
    [][ \A h \in Handlers :
          (Acts(h) /\ hnd[h].kind \in ReadingRoutes
           /\ (hnd[h].called \/ hnd'[h].called))
             => /\ ~StoreChanges
                /\ hnd[h].pc \in {"lookup", "broker"}
                /\ hnd[h].pc = "lookup" => hnd'[h].pc = "broker"
                /\ hnd[h].pc = "broker"
                      => /\ hnd'[h] = IdleHandler
                         /\ ~answer'.setex.issued ]_vars

\* C34's case: an order was sent with a stored session, which is in the
\* store as it was created
C34_Witness ==
    /\ answer.kind = "send_order"
    /\ answer.ret = "success"
    /\ answer.status = 200
    /\ \E sid \in Sids :
          /\ Decodes(store[sid])
          /\ Validate(store[sid]).last_refreshed_at = Never

\* C39: a handler that built an AlgolabClient has closed it when it
\* answers, whether the broker call returned a success, returned a failure
\* or raised.
C39_ClientClosed == answer.called => answer.closed

-----------------------------------------------------------------------------
(* AlgolabCrypto of app/crypto_utils.py: construction from the api key,     *)
(* encrypt and decrypt (AES-CBC, PKCS7, base64) and make_checker (SHA-256   *)
(* of api key + hostname + endpoint + body).                                *)

\* AES.block_size, in bytes
BlockSize == 16

\* the key lengths AES.new accepts, in bytes
AesKeySizes == {16, 24, 32}

\* the longest text of the exhaustive part of the inputs, in characters
MaxTextLen == 2

\* the base64 alphabet, in the order of the values 0..63
B64Alphabet ==
    <<"A", "B", "C", "D", "E", "F", "G", "H", "I", "J", "K", "L", "M",
      "N", "O", "P", "Q", "R", "S", "T", "U", "V", "W", "X", "Y", "Z",
      "a", "b", "c", "d", "e", "f", "g", "h", "i", "j", "k", "l", "m",
      "n", "o", "p", "q", "r", "s", "t", "u", "v", "w", "x", "y", "z",
      "0", "1", "2", "3", "4", "5", "6", "7", "8", "9", "+", "/">>

IsB64Char(ch) == \E i \in 1..64 : B64Alphabet[i] = ch

\* the value of a character of the alphabet
B64Value(ch) == (CHOOSE i \in 1..64 : B64Alphabet[i] = ch) - 1

B64Char(v) == B64Alphabet[v + 1]

\* base64.b64encode
RECURSIVE B64Encode(_)
B64Encode(bs) ==
    IF bs = <<>> THEN <<>>
    ELSE IF Len(bs) = 1
    THEN <<B64Char(bs[1] \div 4), B64Char((bs[1] % 4) * 16), "=", "=">>
    ELSE IF Len(bs) = 2
    THEN <<B64Char(bs[1] \div 4), B64Char(((bs[1] % 4) * 16) + (bs[2] \div 16)),
           B64Char((bs[2] % 16) * 4), "=">>
    ELSE <<B64Char(bs[1] \div 4), B64Char(((bs[1] % 4) * 16) + (bs[2] \div 16)),
           B64Char(((bs[2] % 16) * 4) + (bs[3] \div 64)), B64Char(bs[3] % 64)>>
         \o B64Encode(SubSeq(bs, 4, Len(bs)))

\* base64.b64decode without validate: characters outside the alphabet are
\* discarded
B64Data(s) == SelectSeq(s, IsB64Char)

IsPad(ch) == ch = "="

\* base64.b64decode does not raise: the data characters make whole groups
\* of four, or a last group of two or three that the padding (at the end of
\* the text) completes
B64Decodes(s) ==
    LET n == Len(B64Data(s)) % 4
        pads == Len(SelectSeq(s, IsPad))
    IN  \/ n = 0
        \/ n = 2 /\ pads >= 2
        \/ n = 3 /\ pads >= 1

RECURSIVE B64Bytes(_)
B64Bytes(d) ==
    IF Len(d) < 2 THEN <<>>
    ELSE LET v1 == B64Value(d[1])
             v2 == B64Value(d[2])
             b1 == (v1 * 4) + (v2 \div 16)
         IN  IF Len(d) = 2 THEN <<b1>>
             ELSE LET v3 == B64Value(d[3])
                      b2 == ((v2 % 16) * 16) + (v3 \div 4)
                  IN  IF Len(d) = 3 THEN <<b1, b2>>
                      ELSE <<b1, b2, ((v3 % 4) * 64) + B64Value(d[4])>>
                           \o B64Bytes(SubSeq(d, 5, Len(d)))

\* base64.b64decode, where it does not raise
B64Decode(s) == B64Bytes(B64Data(s))

\* "-" in api_key
HasSeparator(s) == \E i \in 1..Len(s) : s[i] = "-"

\* api_key.split("-", 1)[1]
AfterSeparator(s) ==
    LET i == CHOOSE j \in 1..Len(s) :
                 s[j] = "-" /\ \A k \in 1..(j - 1) : s[k] # "-"
    IN  SubSeq(s, i + 1, Len(s))

\* __init__: the part after the first "-", or the key as it is
ApiCode(key) == IF HasSeparator(key) THEN AfterSeparator(key) ELSE key

\* AlgolabCrypto.__init__: the object, or the ValueError
NewCrypto(key, hostname) ==
    LET code == ApiCode(key)
    IN  IF B64Decodes(code)
        THEN [state |-> "built", api_key_full |-> key, api_code |-> code,
              aes_key |-> B64Decode(code)]
        ELSE [NotBuilt EXCEPT !.state = "ValueError"]

\* str.encode('utf-8') of one code point
Utf8Char(cp) ==
    IF cp < 128 THEN <<cp>>
    ELSE IF cp < 2048 THEN <<192 + (cp \div 64), 128 + (cp % 64)>>
    ELSE IF cp < 65536
    THEN <<224 + (cp \div 4096), 128 + ((cp \div 64) % 64), 128 + (cp % 64)>>
    ELSE <<240 + (cp \div 262144), 128 + ((cp \div 4096) % 64),
           128 + ((cp \div 64) % 64), 128 + (cp % 64)>>

\* text.encode('utf-8')
RECURSIVE Utf8Encode(_)
Utf8Encode(text) ==
    IF text = <<>> THEN <<>>
    ELSE Utf8Char(Head(text)) \o Utf8Encode(Tail(text))

\* the number of bytes the character that starts with byte b takes; 0 if
\* no character starts with b
Utf8Width(b) ==
    IF b < 128 THEN 1
    ELSE IF b >= 194 /\ b < 224 THEN 2
    ELSE IF b >= 224 /\ b < 240 THEN 3
    ELSE IF b >= 240 /\ b < 245 THEN 4
    ELSE 0

IsContinuation(b) == b >= 128 /\ b < 192

\* bytes.decode('utf-8') does not raise
RECURSIVE Utf8Valid(_)
Utf8Valid(bs) ==
    IF bs = <<>> THEN TRUE
    ELSE LET w == Utf8Width(bs[1])
         IN  /\ w > 0
             /\ Len(bs) >= w
             /\ \A i \in 2..w : IsContinuation(bs[i])
             /\ Utf8Valid(SubSeq(bs, w + 1, Len(bs)))

\* bytes.decode('utf-8'), where it does not raise
RECURSIVE Utf8Decode(_)
Utf8Decode(bs) ==
    IF bs = <<>> THEN <<>>
    ELSE LET w == Utf8Width(bs[1])
             cp == IF w = 1 THEN bs[1]
                   ELSE IF w = 2 THEN ((bs[1] - 192) * 64) + (bs[2] - 128)
                   ELSE IF w = 3
                   THEN ((bs[1] - 224) * 4096) + ((bs[2] - 128) * 64) + (bs[3] - 128)
                   ELSE ((bs[1] - 240) * 262144) + ((bs[2] - 128) * 4096)
                        + ((bs[3] - 128) * 64) + (bs[4] - 128)
         IN  <<cp>> \o Utf8Decode(SubSeq(bs, w + 1, Len(bs)))

\* n copies of the byte b
Repeat(b, n) == [i \in 1..n |-> b]

\* a faulty variant: a text that fills its blocks gets no padding block
PadToBlock(bs) ==
    bs \o Repeat((BlockSize - (Len(bs) % BlockSize)) % BlockSize,
                 (BlockSize - (Len(bs) % BlockSize)) % BlockSize)

\* Crypto.Util.Padding.pad: PKCS7
Pad(bs) ==
    bs \o Repeat(BlockSize - (Len(bs) % BlockSize),
                 BlockSize - (Len(bs) % BlockSize))

\* Crypto.Util.Padding.unpad does not raise
Unpads(bs) ==
    /\ Len(bs) > 0
    /\ Len(bs) % BlockSize = 0
    /\ LET n == bs[Len(bs)]
       IN  /\ n >= 1 /\ n <= BlockSize
           /\ \A i \in (Len(bs) - n + 1)..Len(bs) : bs[i] = n

\* Crypto.Util.Padding.unpad, where it does not raise
Unpad(bs) == SubSeq(bs, 1, Len(bs) - bs[Len(bs)])

\* the exclusive or of two bytes
RECURSIVE Xor(_, _)
Xor(a, b) ==
    IF a = 0 THEN b
    ELSE IF b = 0 THEN a
    ELSE ((a + b) % 2) + (2 * Xor(a \div 2, b \div 2))

XorBlock(x, y) == [i \in 1..BlockSize |-> Xor(x[i], y[i])]

\* The block cipher stands for AES: under each key a permutation of the
\* blocks, and its inverse.
BlockEncrypt(key, block) ==
    [i \in 1..BlockSize |-> (block[i] + key[((i - 1) % Len(key)) + 1] + i) % 256]

BlockDecrypt(key, block) ==
    [i \in 1..BlockSize |->
        (block[i] + 512 - key[((i - 1) % Len(key)) + 1] - i) % 256]

\* self.iv = b'\0' * 16
Iv == Repeat(0, BlockSize)

\* cipher.encrypt in CBC mode: each block is mixed with the ciphertext of
\* the block before it
RECURSIVE CbcEncrypt(_, _, _)
CbcEncrypt(key, prev, bs) ==
    IF bs = <<>> THEN <<>>
    ELSE LET c == BlockEncrypt(key, XorBlock(SubSeq(bs, 1, BlockSize), prev))
         IN  c \o CbcEncrypt(key, c, SubSeq(bs, BlockSize + 1, Len(bs)))

\* cipher.decrypt in CBC mode
RECURSIVE CbcDecrypt(_, _, _)
CbcDecrypt(key, prev, bs) ==
    IF bs = <<>> THEN <<>>
    ELSE LET c == SubSeq(bs, 1, BlockSize)
         IN  XorBlock(BlockDecrypt(key, c), prev)
             \o CbcDecrypt(key, c, SubSeq(bs, BlockSize + 1, Len(bs)))

\* AES.new(self.aes_key, AES.MODE_CBC, self.iv) does not raise
KeyFits(aes_key) == Len(aes_key) \in AesKeySizes

\* encrypt, where it does not raise
EncryptText(aes_key, text) ==
    B64Encode(CbcEncrypt(aes_key, Iv, Pad(Utf8Encode(text))))

\* the ciphertext bytes decrypt takes from its argument
Ciphertext(encrypted_text) == B64Decode(encrypted_text)

\* decrypt does not raise
Decrypts(aes_key, encrypted_text) ==
    /\ KeyFits(aes_key)
    /\ B64Decodes(encrypted_text)
    /\ Len(Ciphertext(encrypted_text)) % BlockSize = 0
    /\ Unpads(CbcDecrypt(aes_key, Iv, Ciphertext(encrypted_text)))
    /\ Utf8Valid(Unpad(CbcDecrypt(aes_key, Iv, Ciphertext(encrypted_text))))

\* decrypt, where it does not raise
DecryptText(aes_key, encrypted_text) ==
    Utf8Decode(Unpad(CbcDecrypt(aes_key, Iv, Ciphertext(encrypted_text))))

\* json.dumps of a string: the characters json.dumps escapes, among those
\* of the model's values
JsonChar(ch) ==
    IF ch = "\"" THEN <<"\\", "\"">>
    ELSE IF ch = "g~" THEN <<"\\", "u", "0", "1", "1", "f">>
    ELSE <<ch>>

RECURSIVE JsonEscape(_)
JsonEscape(str) ==
    IF str = <<>> THEN <<>>
    ELSE JsonChar(Head(str)) \o JsonEscape(Tail(str))

JsonString(str) == <<"\"">> \o JsonEscape(str) \o <<"\"">>

\* json.dumps(payload, separators=(',', ':')): the fields in the order of
\* the dict, which is the order of insertion.  A payload is the sequence
\* of its <<key, value>> pairs.
RECURSIVE JsonFields(_)
JsonFields(payload) ==
    IF payload = <<>> THEN <<>>
    ELSE JsonString(payload[1][1]) \o <<":">> \o JsonString(payload[1][2])
         \o (IF Len(payload) > 1 THEN <<",">> ELSE <<>>)
         \o JsonFields(Tail(payload))

JsonDumps(payload) == <<"{">> \o JsonFields(payload) \o <<"}">>

NotSpace(ch) == ch # " "

\* .replace(' ', '')
RemoveSpaces(str) == SelectSeq(str, NotSpace)

\* make_checker: the body that is hashed
Body(payload) ==
    IF Len(payload) > 0 THEN RemoveSpaces(JsonDumps(payload)) ELSE <<>>

\* f"{self.api_key_full}{self.api_hostname}{endpoint}{body}"
SignatureString(key, hostname, endpoint, payload) ==
    key \o hostname \o endpoint \o Body(payload)

\* hashlib.sha256(...).hexdigest(): the digest stands for itself, two
\* strings have one digest only if they are one string
Sha256Hex(str) == <<"sha256", str>>

\* the api keys an AlgolabCrypto is constructed with: two well-formed ones
\* (a 16-byte key and the 32-byte example key), "invalid-key", one without
\* a separator,
\* one whose part after the separator holds no base64 character, and one
\* that ends in a single base64 character
GoodKey16 ==
    <<"A", "P", "I", "K", "E", "Y", "-", "B", "8", "g", "h", "B", "F",
      "r", "/", "A", "B", "J", "A", "g", "Q", "o", "L", "+", "g", "N",
      "N", "E", "A", "=", "=">>

ExampleKey ==
    <<"A", "P", "I", "K", "E", "Y", "-", "0", "4", "Y", "W", "0", "b",
      "9", "C", "b", "8", "S", "0", "M", "r", "g", "B", "w", "/", "Y",
      "4", "i", "P", "Y", "i", "2", "h", "j", "I", "i", "d", "W", "7",
      "q", "j", "4", "h", "r", "h", "B", "h", "w", "Z", "g", "=">>

InvalidKey ==
    <<"i", "n", "v", "a", "l", "i", "d", "-", "k", "e", "y">>

NoSeparatorKey == <<"a", "b", "c", "d">>

NotBase64Key ==
    <<"A", "P", "I", "K", "E", "Y", "-", "@", "@", "@", "@">>

OddKey ==
    <<"A", "P", "I", "K", "E", "Y", "-", "a">>

ApiKeys == {GoodKey16, ExampleKey, InvalidKey, NoSeparatorKey, NotBase64Key,
            OddKey}

\* settings.algolab_hostname with its scheme
Hostname ==
    <<"h", "t", "t", "p", "s", ":", "/", "/", "w", "w", "w", ".", "a",
      "l", "g", "o", "l", "a", "b", ".", "c", "o", "m", ".", "t", "r">>

Endpoints == {
    <<"/", "a", "p", "i", "/", "S", "e", "n", "d", "O", "r", "d", "e",
      "r">>,
    <<"/", "a", "p", "i", "/", "P", "o", "r", "t", "f", "o", "l", "i",
      "o">>}

\* the characters of the texts that are encrypted: "!", "A", and the code
\* points of a two-byte, a three-byte and a four-byte character
TextChars == {33, 65, 287, 8364, 128512}

\* texts that fill one block less a byte, one block, and more than one
LongTexts == {Repeat(65, BlockSize - 1), Repeat(65, BlockSize),
              Repeat(65, BlockSize - 1) \o <<287>>}

Texts == UNION {[1..n -> TextChars] : n \in 0..MaxTextLen} \cup LongTexts

\* the fields of a body and the values they take ("g~" is the letter g
\* with breve, which json.dumps escapes)
FieldNames == {<<"s", "y", "m", "b", "o", "l">>, <<"l", "o", "t">>}

FieldValues == {<<>>, <<"A">>, <<"A", "B">>, <<"A", " ", "B">>, <<"g~">>}

\* the payloads: dicts of no, one or two fields
Payloads ==
    {<<>>}
    \cup {<<<<k, v>>>> : k \in FieldNames, v \in FieldValues}
    \cup {p \in {<<<<k1, v1>>, <<k2, v2>>>> :
                    k1 \in FieldNames, k2 \in FieldNames,
                    v1 \in FieldValues, v2 \in FieldValues} :
            p[1][1] # p[2][1]}

\* AlgolabCrypto(api_key, api_hostname)
Construct(key) ==
    /\ crypto.state = "none"
    /\ api_key' = key
    /\ crypto' = NewCrypto(key, Hostname)
    /\ cop' = NoOp
    /\ UNCHANGED notcry

\* crypto.encrypt(text)
Encrypt(text) ==
    /\ crypto.state = "built"
    /\ cop' = IF KeyFits(crypto.aes_key)
              THEN [NoOp EXCEPT !.op = "encrypt", !.text = text,
                                !.encrypted = EncryptText(crypto.aes_key, text)]
              ELSE [NoOp EXCEPT !.op = "encrypt", !.text = text,
                                !.err = "RuntimeError"]
    /\ UNCHANGED <<api_key, crypto, notcry>>

\* crypto.decrypt(encrypted) of what encrypt returned
Decrypt ==
    /\ crypto.state = "built"
    /\ cop.op = "encrypt" /\ cop.err = None
    /\ cop' = IF Decrypts(crypto.aes_key, cop.encrypted)
              THEN [cop EXCEPT !.op = "decrypt",
                               !.decrypted = DecryptText(crypto.aes_key,
                                                         cop.encrypted)]
              ELSE [cop EXCEPT !.op = "decrypt", !.err = "RuntimeError"]
    /\ UNCHANGED <<api_key, crypto, notcry>>

\* the result of crypto.make_checker(endpoint, payload)
Checked(endpoint, payload) ==
    LET str == SignatureString(crypto.api_key_full, Hostname, endpoint, payload)
    IN  [NoOp EXCEPT !.op = "make_checker", !.endpoint = endpoint,
                     !.payload = payload, !.signature_string = str,
                     !.checker = Sha256Hex(str)]

\* crypto.make_checker(endpoint, payload)
MakeChecker(endpoint, payload) ==
    /\ crypto.state = "built"
    /\ cop' = Checked(endpoint, payload)
    /\ UNCHANGED <<api_key, crypto, notcry>>

\* crypto.make_checker once more, with the same endpoint and with the
\* payload's field i set to value: the same arguments if that is the value
\* it had, else one field changed
MakeCheckerAgain(i, value) ==
    /\ crypto.state = "built"
    /\ cop.op = "make_checker"
    /\ i \in 1..Len(cop.payload)
    /\ cop' = [Checked(cop.endpoint,
                       [cop.payload EXCEPT ![i] = <<cop.payload[i][1], value>>])
                 EXCEPT !.changed = IF cop.payload[i][2] = value THEN 0 ELSE i,
                        !.prev_payload = cop.payload,
                        !.prev_signature_string = cop.signature_string,
                        !.prev_checker = cop.checker]
    /\ UNCHANGED <<api_key, crypto, notcry>>

NextCrypto ==
    \/ \E key \in ApiKeys : Construct(key)
    \/ \E text \in Texts : Encrypt(text)
    \/ Decrypt
    \/ \E endpoint \in Endpoints, payload \in Payloads :
          MakeChecker(endpoint, payload)
    \/ \E i \in 1..2, value \in FieldValues : MakeCheckerAgain(i, value)

InitCrypto ==
    /\ InitRL({FALSE}, OwnClient)
    /\ hash = [c \in Clients |-> None]
    /\ InitStore({DefaultTtl})
    /\ IdlePf

\* the calls of one AlgolabCrypto
SpecCrypto == InitCrypto /\ [][NextCrypto]_vars

-----------------------------------------------------------------------------
(* The claims about AlgolabCrypto *)

\* C23: make_checker called twice with the same arguments gives the same
\* checker, and called with one field's value changed (the api key, the
\* hostname, the endpoint and the other fields as before) it hashes another
\* string and gives another checker.
C23_CheckerFollowsFields ==
    (cop.op = "make_checker" /\ cop.prev_checker # <<>>)
        => /\ cop.changed = 0 => cop.checker = cop.prev_checker
           /\ cop.changed > 0
                 => /\ cop.signature_string # cop.prev_signature_string
                    /\ cop.checker # cop.prev_checker

\* C24: make_checker hashes api key + hostname + endpoint followed by the
\* empty string if the payload is empty, and by the compact JSON of the
\* payload, its keys in the order of insertion, if it is not; the two
\* strings differ.
C24_CanonicalString ==
    cop.op = "make_checker"
        => LET prefix == api_key \o Hostname \o cop.endpoint
           IN  /\ cop.checker = Sha256Hex(cop.signature_string)
               /\ cop.payload = <<>> => cop.signature_string = prefix
               /\ cop.payload # <<>>
                     => /\ cop.signature_string
                              = prefix \o JsonDumps(cop.payload)
                        /\ cop.signature_string # prefix

\* the api key decodes to a key AES takes
ValidBundle == crypto.state = "built" /\ KeyFits(crypto.aes_key)

\* C25: with a valid api key, decrypt of what encrypt returned for a text
\* is that text, for texts of one-byte and multi-byte characters.
C25_DecryptEncrypt ==
    /\ (cop.op = "encrypt" /\ ValidBundle) => cop.err = None
    /\ (cop.op = "decrypt" /\ ValidBundle)
          => cop.err = None /\ cop.decrypted = cop.text

\* C25's case: a text of two blocks that ends in a two-byte character came
\* back from decrypt
C25_Witness ==
    /\ ValidBundle
    /\ cop.op = "decrypt"
    /\ cop.text = Repeat(65, BlockSize - 1) \o <<287>>
    /\ cop.decrypted = cop.text
    /\ Len(cop.encrypted) > 40

\* a text is base64: characters of the alphabet in groups of four, the last
\* group filled up with "="
IsBase64(str) ==
    /\ Len(str) % 4 = 0
    /\ \A i \in 1..Len(str) :
          \/ IsB64Char(str[i])
          \/ /\ str[i] = "="
             /\ i > Len(str) - 2
             /\ \A j \in (i + 1)..Len(str) : str[j] = "="

\* C26: constructing AlgolabCrypto with an api key that has no "-", or
\* whose part after the first "-" is not base64, fails with an error.
C26_MalformedKeyFails ==
    (/\ crypto.state # "none"
     /\ \/ ~HasSeparator(api_key)
        \/ ~IsBase64(AfterSeparator(api_key)))
        => crypto.state = "ValueError"

-----------------------------------------------------------------------------
(* The server's HTTP responses: the route handlers of app/main.py and       *)
(* app/routes.py behind the middleware of app/main.py.                      *)

\* the routes of the application
WebRoutes == {"/health", "/", "/bridge/broker-status", "/bridge/broker-test",
              "/bridge/login", "/bridge/verify-sms", "/bridge/refresh-session",
              "/bridge/send-order", "/bridge/delete-order",
              "/bridge/modify-order", "/bridge/portfolio", "/bridge/cash-flow",
              "/bridge/equity-info", "/bridge/stock-info",
              "/bridge/multiple-stocks", "/bridge/top-gainers",
              "/bridge/top-losers", "/bridge/most-active"}

\* the statuses a route answers with: /health and / return their dict, the
\* others return their result or raise an HTTPException
RouteStatuses(route) ==
    IF route \in {"/health", "/"} THEN {200} ELSE {200, 400, 500}

MockModeHeader == <<"X-Mock-Mode", "true">>

\* add_mock_mode_header(response)
AddMockModeHeader(headers) ==
    IF use_mock THEN headers \cup {MockModeHeader} ELSE headers

\* the headers a route handler sets on its response: login calls
\* add_mock_mode_header before it returns its LoginResponse, and no other
\* route and no error path calls it
RouteHeaders(route, status) ==
    IF route = "/bridge/login" /\ status = 200
    THEN AddMockModeHeader({})
    ELSE {}

\* CORSMiddleware: a request with an Origin gets the allow-origin header
CorsHeaders(origin) ==
    IF origin THEN {<<"access-control-allow-origin", "*">>} ELSE {}

\* a request arrives
Receive(route, origin) ==
    /\ hreq.pc = "idle"
    /\ hreq' = [NoRequest EXCEPT !.route = route, !.origin = origin,
                                 !.pc = "handler"]
    /\ hresp' = NoResponse
    /\ UNCHANGED notweb

\* the route's handler answers
RouteHandler(status) ==
    /\ hreq.pc = "handler"
    /\ status \in RouteStatuses(hreq.route)
    /\ hreq' = [hreq EXCEPT !.pc = "middleware", !.status = status,
                            !.headers = RouteHeaders(hreq.route, status)]
    /\ UNCHANGED hresp
    /\ UNCHANGED notweb

\* the response passes log_requests, which returns it as it is, and
\* CORSMiddleware, and is sent
SendResponse ==
    /\ hreq.pc = "middleware"
    /\ hresp' = [route |-> hreq.route, status |-> hreq.status,
                 headers |-> hreq.headers \cup CorsHeaders(hreq.origin)]
    /\ hreq' = NoRequest
    /\ UNCHANGED notweb

NextHttp ==
    \/ \E route \in WebRoutes, origin \in BOOLEAN : Receive(route, origin)
    \/ \E status \in {200, 400, 500} : RouteHandler(status)
    \/ SendResponse

InitHttp ==
    /\ InitRL(BOOLEAN, OwnClient)
    /\ hash = [c \in Clients |-> None]
    /\ InitStore({DefaultTtl})
    /\ IdlePf

\* the server answering requests, in live or in simulated mode
SpecHttp == InitHttp /\ [][NextHttp]_vars

\* C27: in simulated mode every response of the server carries the header
\* X-Mock-Mode: true, the response of GET /health among them.
C27_MockHeaderOnResponses ==
    (use_mock /\ hresp.route # None) => MockModeHeader \in hresp.headers

-----------------------------------------------------------------------------
(* AlgolabBridgeClient._make_request of railway_bridge_client_example.py:   *)
(* the attempts of one call.                                                *)

\* max_retries
MaxRetries == 3

BridgeMethods == {"POST", "GET", "PUT"}

\* what an attempt meets: a response with its status, no response in time,
\* or another failure of the request
AttemptOutcomes ==
    [kind : {"response"}, status : {200, 307, 404, 503}]
    \cup [kind : {"timeout", "request_error"}, status : {0}]

\* response.raise_for_status() raises HTTPStatusError: for a 4xx and a 5xx
\* status, and in the httpx versions that do so for a 3xx status
RaisesForStatus(status) ==
    \/ status >= 400
    \/ status >= 300 /\ raises_on_redirect

\* the error an attempt raises inside the try, or None if it returns
AttemptError(method, outcome) ==
    IF method \notin {"POST", "GET"} THEN "ValueError"
    ELSE IF outcome.kind = "timeout" THEN "TimeoutException"
    ELSE IF outcome.kind = "request_error" THEN "RequestError"
    ELSE IF RaisesForStatus(outcome.status) THEN "HTTPStatusError"
    ELSE None

\* the except clauses: the error is raised again and leaves the call.  A
\* ValueError is caught by none of them; an HTTPStatusError with a 4xx
\* status is raised at once; the others on the last attempt.
Reraised(err, outcome, attempt) ==
    \/ err = "ValueError"
    \/ err = "HTTPStatusError" /\ outcome.status >= 400 /\ outcome.status < 500
    \/ attempt = MaxRetries - 1

\* a caller calls _make_request
BridgeRequest(method) ==
    /\ bcall.pc = "idle"
    /\ bcall' = [NoBridgeCall EXCEPT !.pc = "attempting", !.method = method]
    /\ bdone' = NoBridgeDone
    /\ UNCHANGED <<raises_on_redirect, notbr>>

\* the call ends
BridgeEnds(result, outcomes) ==
    /\ bdone' = [result |-> result, method |-> bcall.method,
                 outcomes |-> outcomes]
    /\ bcall' = NoBridgeCall

\* one turn of the loop: the request is sent (if the method is supported)
\* and meets outcome
Attempt(outcome) ==
    /\ bcall.pc = "attempting"
    /\ UNCHANGED <<raises_on_redirect, notbr>>
    /\ LET err == AttemptError(bcall.method, outcome)
           outcomes == IF err = "ValueError" THEN bcall.outcomes
                       ELSE Append(bcall.outcomes, outcome)
       IN  IF err = None THEN BridgeEnds("returned", outcomes)
           ELSE IF Reraised(err, outcome, bcall.attempt)
           THEN BridgeEnds(err, outcomes)
           ELSE IF bcall.attempt + 1 < MaxRetries
           THEN /\ bcall' = [bcall EXCEPT !.attempt = @ + 1,
                                          !.outcomes = outcomes]
                /\ UNCHANGED bdone
           ELSE \* the loop is over: raise RuntimeError("Request failed
                \* after all retries")
                BridgeEnds("RuntimeError", outcomes)

NextBridge ==
    \/ \E method \in BridgeMethods : BridgeRequest(method)
    \/ \E outcome \in AttemptOutcomes : Attempt(outcome)

InitBridge ==
    /\ InitRL({FALSE}, OwnClient)
    /\ hash = [c \in Clients |-> None]
    /\ InitStore({DefaultTtl})
    /\ IdleCrypto
    /\ IdleWeb
    /\ raises_on_redirect \in BOOLEAN
    /\ bcall = NoBridgeCall
    /\ bdone = NoBridgeDone

\* the calls of one bridge client
SpecBridge == InitBridge /\ [][NextBridge]_vars

\* the attempt that met outcome o may be followed by another, by the claim
RetriedByClaim(o) ==
    \/ o.kind \in {"timeout", "request_error"}
    \/ o.kind = "response" /\ o.status >= 500 /\ o.status < 600

\* C28: a call of _make_request makes at most 3 attempts; every attempt
\* that another attempt follows met a timeout, a connection error or a 5xx
\* status (never a 4xx status); and the call ends by returning a response
\* or by raising the error of its last attempt, never the RuntimeError
\* behind the loop.
C28_BoundedRetries ==
    bdone.result # None
        => /\ Len(bdone.outcomes) <= MaxRetries
           /\ \A i \in 1..(Len(bdone.outcomes) - 1) :
                 RetriedByClaim(bdone.outcomes[i])
           /\ bdone.result # "RuntimeError"
           /\ bdone.outcomes # <<>>
                 => bdone.result
                      = (IF AttemptError(bdone.method,
                                         bdone.outcomes[Len(bdone.outcomes)])
                            = None
                         THEN "returned"
                         ELSE AttemptError(bdone.method,
                                           bdone.outcomes[Len(bdone.outcomes)]))


\* send_order: self._make_request("POST", "/bridge/send-order", ...)
SendOrderMethod == "POST"

\* C38: a call of send_order, which is one call of _make_request with
\* POST, posts the order at most once, whatever its attempts meet.
C38_OrderPostedOnce ==
    (bdone.result # None /\ bdone.method = SendOrderMethod)
        => Len(bdone.outcomes) <= 1

=============================================================================
